---- MODULE Spec2Model ----
(***************************************************************************)
(* Multi-tenant database access engine: the connection pool manager        *)
(* (core/pool-manager.ts), the query execution gateway                     *)
(* (modules/query/query.service.js, query.controller.js), the stored       *)
(* connections of the workspace module (workspace.controller.ts,           *)
(* workspace.service.ts) and the schema introspection cache                *)
(* (modules/ai/schema-analyzer.ts).                                        *)
(*                                                                         *)
(* Node runs one handler continuation at a time: every action below is one *)
(* run-to-completion segment of a handler, from one await to the next.     *)
(***************************************************************************)
EXTENDS Integers, Sequences, FiniteSets, TLC

VARIABLES
    rows,      \* table user_connections of the metadata store: row id -> row
    pools,     \* ConnectionManager.pools : userId -> handle id, or NoPool
    handles,   \* every pool object constructed so far, by handle id
    req,       \* runUserQuery / getSchema requests in flight, by arrival
    sw,        \* switchConnection requests in flight, by arrival
    ec,        \* closePool calls started by pool error observers, in flight
    fin,       \* history: what the finished requests and events did
    started,   \* history: how many requests and events there have been
    epoch,     \* history: per user, the closePool calls that have returned after
               \* removing (n), the handle the last of them had shut down
               \* (closed), the handle getPool returned last since then (got)
    switched,  \* history: per user, the target of the last switch answered 200
    add,       \* addConnection requests in flight, by arrival
    cache,     \* SchemaAnalyzer.cache, the entries of the tenants of the model
    others,    \* how many entries the cache holds for tenants outside the model
    hits,      \* SchemaAnalyzer.hits
    misses,    \* SchemaAnalyzer.misses
    seen,      \* history: cache lookups that found an entry, and that found none
    inp,       \* the arguments of the call of a function under study
    out,       \* history: what the last such call returned or did
    queryCache,          \* AIService.queryCache: key -> response
    schemaSummaryCache,  \* AIService.schemaSummaryCache: key -> summary
    aiStats,   \* AIService.hits, misses and requests; history: calls of the model
    calls,     \* AIService calls waiting for the model, by arrival
    aiLog,     \* history: the AIService calls as they started and ended
    checkedOut,  \* the clients checked out of the pool under study
    waiters,   \* its connect() calls waiting for a client, oldest first
    answered   \* history: the connect() calls that have settled, and how

coreVars == <<rows, pools, handles, req, sw, ec, fin, started, epoch, switched>>
cacheVars == <<cache, others, hits, misses, seen>>
callVars == <<inp, out>>
aiVars == <<queryCache, schemaSummaryCache, aiStats, calls, aiLog>>
acquireVars == <<checkedOut, waiters, answered>>
vars == <<coreVars, add, cacheVars, callVars, aiVars, acquireVars>>

\* The AIService after construction: empty caches, counters at zero
\* (otherKeys: the entries each cache holds for tenants outside the model).
AiIdle ==
    /\ queryCache = <<>>
    /\ schemaSummaryCache = <<>>
    /\ aiStats = [hits |-> 0, misses |-> 0, requests |-> 0, modelCalls |-> 0,
                  otherKeys |-> 0]
    /\ calls = <<>>
    /\ aiLog = <<>>

\* A pool nobody has asked for a client.
AcquireIdle ==
    /\ checkedOut = 0
    /\ waiters = <<>>
    /\ answered = <<>>

----------------------------------------------------------------------------
(* Bounds of the model *)

MaxOps == 3         \* requests and pool-level error events in one behaviour

NoPool == 0         \* the Map has no entry (pools.get returns undefined)
NoRow == 0          \* no row; connectionId missing from the request body
NoCall == <<>>      \* no function under study has been called

Users == {"u1", "u2"}

ReqIds == 1..Len(req)
SwIds == 1..Len(sw)
EcIds == 1..Len(ec)
RowIds == 1..Len(rows)
HandleIds == 1..Len(handles)

\* The sequence s without its i-th element.
Without(s, i) == SubSeq(s, 1, i - 1) \o SubSeq(s, i + 1, Len(s))

----------------------------------------------------------------------------
(* Connection strings and the credential vault as the pool manager uses it *)

\* String.prototype.toLowerCase on the scheme of a connection string.
ToLowerCase(s) ==
    CASE s = "MYSQL" -> "mysql"
      [] s = "Postgres" -> "postgres"
      [] OTHER -> s

\* connectionString.toLowerCase().startsWith('mysql')
IsMysql(scheme) == ToLowerCase(scheme) = "mysql"

\* decrypt(encryptedUrl): the stored token of row i decrypts to the connection
\* string that addConnection encrypted into it.
Decrypt(url) == rows[url].scheme

\* !connectionString || typeof connectionString !== 'string'
DecryptFailed(cs) == cs = ""

----------------------------------------------------------------------------
(* ConnectionManager *)

HasPool_AlwaysMiss(u) == FALSE

\* this.pools.has(poolKey)
HasPool(u) == pools[u] # NoPool

\* The pg branch registers pgPool.on('error', ...); the mysql adapter has no
\* error observer.
RegistersErrorObserver(mysql) == ~mysql

StoresHandle_Forgets(u, h) == pools

\* this.pools.set(poolKey, adapter) / this.pools.set(poolKey, pgPool)
StoresHandle(u, h) == [pools EXCEPT ![u] = h]

\* The pool object built by getPool for user u from token url.
NewHandle(u, url) ==
    [user |-> u, row |-> url, mysql |-> IsMysql(Decrypt(url)),
     observer |-> RegistersErrorObserver(IsMysql(Decrypt(url))),
     ending |-> FALSE, epoch |-> epoch[u].n]

\* pool.end() settles one way or the other.
EndOutcomes == {"resolved", "rejected"}

RemovesEntry_OnlyOnSuccess(outcome) == outcome = "resolved"

\* finally { this.pools.delete(userId) }
RemovesEntry(outcome) == TRUE

\* catch (err) { console.error(...) }: closePool's promise always resolves.
ClosePoolResult(outcome) == "resolved"

\* The table after closePool's await pool.end() has settled with outcome.
PoolsAfterClose(u, outcome) ==
    IF RemovesEntry(outcome) THEN [pools EXCEPT ![u] = NoPool] ELSE pools

\* The history after a closePool that had called end() on handle h returns.
Removed(e, h) == [n |-> e.n + 1, got |-> NoPool, closed |-> h]

\* pool.end() has been invoked on handle h.
MarkEnding(h) == [handles EXCEPT ![h].ending = TRUE]

----------------------------------------------------------------------------
(* Initial state: the process has just started (no pool, no request in     *)
(* flight); the metadata store holds the connections saved earlier.        *)

\* u1 has a Postgres connection (active) and a MySQL one; u2 has a MySQL one.
StoredRows ==
    <<[user |-> "u1", scheme |-> "postgres", active |-> TRUE],
      [user |-> "u1", scheme |-> "MYSQL", active |-> FALSE],
      [user |-> "u2", scheme |-> "mysql", active |-> TRUE]>>

Init ==
    /\ rows = StoredRows
    /\ pools = [u \in Users |-> NoPool]
    /\ handles = <<>>
    /\ req = <<>>
    /\ sw = <<>>
    /\ ec = <<>>
    /\ fin = {}
    /\ started = 0
    /\ epoch = [u \in Users |-> [n |-> 0, got |-> NoPool, closed |-> NoPool]]
    /\ switched = [u \in Users |-> NoRow]
    /\ add = <<>>
    /\ cache = <<>>
    /\ others = 0
    /\ hits = 0
    /\ misses = 0
    /\ seen = [present |-> 0, absent |-> 0]
    /\ inp = NoCall
    /\ out = NoCall
    /\ AiIdle
    /\ AcquireIdle

----------------------------------------------------------------------------
(* workspace.service.ts *)

\* SELECT encrypted_url ... WHERE user_id = $1 AND is_active = true LIMIT 1:
\* any one of the active rows, or NoRow when rows.length === 0.
ActiveRows(u) == {i \in RowIds : rows[i].user = u /\ rows[i].active}

ActiveConnectionChoices(u) == IF ActiveRows(u) = {} THEN {NoRow} ELSE ActiveRows(u)

----------------------------------------------------------------------------
(* History kept for the properties *)

SwitchInFlight(u) == \E s \in SwIds : sw[s].user = u

\* A request that starts now starts after a completed switch (the result is its
\* target) whose overlapping requests have all returned.
StartsAfterSwitch(u) ==
    IF /\ ~SwitchInFlight(u)
       /\ \A q \in ReqIds : ~(req[q].user = u /\ req[q].overlap)
    THEN switched[u]
    ELSE NoRow

\* A request record as it is when the handler starts.
NewReq(u, k) ==
    [pc |-> "start", kind |-> k, user |-> u, url |-> NoRow, pool |-> NoPool,
     acquired |-> 0, released |-> 0, overlap |-> FALSE, after |-> NoRow,
     repeated |-> TRUE, fresh |-> TRUE, ending |-> FALSE, current |-> TRUE,
     dbType |-> "postgres", hit |-> FALSE, fetched |-> FALSE, stored |-> FALSE,
     result |-> NoRow]

\* What is kept of a request whose handler has returned ("done") or thrown
\* ("failed"): its locals are gone, what it did is kept.
Finished(r, pc) ==
    [NewReq(r.user, r.kind) EXCEPT
       !.pc = pc, !.acquired = r.acquired, !.released = r.released,
       !.repeated = r.repeated, !.fresh = r.fresh, !.ending = r.ending,
       !.current = r.current, !.dbType = r.dbType, !.hit = r.hit,
       !.fetched = r.fetched, !.stored = r.stored, !.result = r.result]

\* What the properties record about a getPool call of request q that returned
\* handle h (hs: the handles after the call):
\*   repeated  h is the handle the previous call returned, if no closePool has
\*             returned in between;
\*   fresh     if a closePool has returned since the previous call, h was
\*             constructed by this call and is not the handle that was shut down;
\*   ending    end() had already been called on h;
\*   current   for a request that started after a completed switch and has not
\*             overlapped a later one, h was built from the connection that
\*             the switch activated.
Observed(q, h, hs) ==
    LET u == req[q].user
    IN [req[q] EXCEPT
          !.pc = "connect", !.pool = h, !.after = NoRow,
          !.repeated = (epoch[u].got = NoPool \/ epoch[u].got = h),
          !.fresh = (epoch[u].n > 0 /\ epoch[u].got = NoPool)
                      => (h \notin HandleIds /\ h # epoch[u].closed),
          !.ending = hs[h].ending,
          !.current = (req[q].after = NoRow \/ req[q].overlap \/ hs[h].row = req[q].after)]

----------------------------------------------------------------------------
(* query.controller.js / query.service.js *)

\* runUserQuery (kind "query"), getSchema (kind "schema") and the handlers of
\* ai.controller.ts that need the schema context (kind "context", for database
\* type d of the request) up to the point where getActiveConnectionForUser has
\* read the store.
StartRequest(u, k, d) ==
    /\ started < MaxOps
    /\ started' = started + 1
    /\ \E i \in ActiveConnectionChoices(u) :
         IF i = NoRow
         THEN /\ fin' = fin \cup {Finished([NewReq(u, k) EXCEPT !.dbType = d], "failed")}
              /\ UNCHANGED req
         ELSE /\ req' = Append(req, [NewReq(u, k) EXCEPT
                                       !.pc = "getpool", !.url = i, !.dbType = d,
                                       !.overlap = SwitchInFlight(u),
                                       !.after = StartsAfterSwitch(u)])
              /\ UNCHANGED fin
    /\ UNCHANGED <<rows, pools, handles, sw, ec, epoch, switched, add, cacheVars, callVars, aiVars, acquireVars>>

\* poolManager.getPool(userId, encryptedUrl), called by request q.  getPool has
\* no await: lookup, decrypt, construction and pools.set are one step.
GetPoolCall(q) ==
    LET u == req[q].user
        url == req[q].url
        new == Len(handles) + 1
    IN IF HasPool(u)
       THEN /\ req' = [req EXCEPT ![q] = Observed(q, pools[u], handles)]
            /\ epoch' = [epoch EXCEPT ![u].got = pools[u]]
            /\ UNCHANGED <<pools, handles, fin>>
       ELSE IF DecryptFailed(Decrypt(url))
       THEN /\ req' = Without(req, q)
            /\ fin' = fin \cup {Finished(req[q], "failed")}
            /\ UNCHANGED <<pools, handles, epoch>>
       ELSE /\ handles' = Append(handles, NewHandle(u, url))
            /\ pools' = StoresHandle(u, new)
            /\ req' = [req EXCEPT ![q] = Observed(q, new, Append(handles, NewHandle(u, url)))]
            /\ epoch' = [epoch EXCEPT ![u].got = new]
            /\ UNCHANGED fin

\* executeQuery / getDatabaseSchema: await poolManager.getPool(userId, encryptedUrl)
GetPool(q) ==
    /\ req[q].pc = "getpool"
    /\ req[q].kind # "context"
    /\ GetPoolCall(q)
    /\ UNCHANGED <<rows, sw, ec, started, switched, add, cacheVars, callVars, aiVars, acquireVars>>

\* await pool.connect(): a client is checked out, or the call rejects (it always
\* rejects once end() has been called on the pool).
Connect(q) ==
    /\ req[q].pc = "connect"
    /\ \E ok \in IF handles[req[q].pool].ending THEN {FALSE} ELSE BOOLEAN :
         IF ok
         THEN /\ req' = [req EXCEPT ![q] = [@ EXCEPT !.pc = "q1", !.acquired = 1]]
              /\ UNCHANGED fin
         ELSE /\ req' = Without(req, q)
              /\ fin' = fin \cup {Finished(req[q], "failed")}
    /\ UNCHANGED <<rows, pools, handles, sw, ec, started, epoch, switched, add, cacheVars, callVars, aiVars, acquireVars>>

ReleasesClient_OnlyOnSuccess(ok) == ok

\* finally { client.release() }
ReleasesClient(ok) == TRUE

\* getDatabaseSchema runs two statements on the client, executeQuery one.
HasSecondStatement(k) == k \in {"schema", "context"}

\* The characters of a tenant identifier.  A key is the sequence of its
\* parts, the identifier character by character, so that one key can be a
\* proper prefix of another as it can in the program's strings.
Chars(id) ==
    CASE id = "t:x" -> <<"t", ":", "x">>
      [] id = "tx" -> <<"t", "x">>
      [] OTHER -> <<id>>

\* schema-analyzer.ts: const cacheKey = `schema:${userId}:${databaseType}`
CacheKey(u, d) == <<"schema:">> \o Chars(u) \o <<":", d>>

\* invalidateUserCache: const prefix = `schema:${userId}:`
KeyPrefix(u) == <<"schema:">> \o Chars(u) \o <<":">>

\* String.prototype.startsWith
StartsWith(key, prefix) ==
    /\ Len(prefix) <= Len(key)
    /\ SubSeq(key, 1, Len(prefix)) = prefix

\* invalidateUserCache: if (key.startsWith(prefix)) this.cache.del(key)
DeletesKey(key, prefix) == StartsWith(key, prefix)

\* The cache c after invalidateUserCache(u).
InvalidateUserCache(c, u) ==
    [k \in {x \in DOMAIN c : ~DeletesKey(x, KeyPrefix(u))} |-> c[k]]

\* NodeCache of the SchemaAnalyzer is built with maxKeys: 500
MaxKeys == 500

CacheHas(k) == k \in DOMAIN cache
KeyCount == others + Cardinality(DOMAIN cache)

\* node-cache set(): the call is refused (ECACHEFULL is thrown) when the cache
\* already holds maxKeys keys, whether or not k is one of them.
CacheFull(k) == KeyCount >= MaxKeys
CacheSet(k, v) == [x \in DOMAIN cache \cup {k} |-> IF x = k THEN v ELSE cache[x]]

\* parseSchema(rawSchema, databaseType) of the schema read through pool h: the
\* context describes the database of the connection the pool was built from.
ParsedContext(h, d) == [source |-> handles[h].row, databaseType |-> d]

\* getSchemaContext: this.cache.set(cacheKey, parsed) stores unless set() throws
StoresOnMiss(full) == ~full

ReachesCacheSet_AlsoOnFailure(ok) == TRUE

\* getSchemaContext: a rejected await getDatabaseSchema(...) leaves the function
\* before parseSchema and cache.set; nothing catches it.
ReachesCacheSet(ok) == ok

\* The end of the request whose last statement settled with ok: the finally
\* block releases the client; getSchemaContext then parses and caches.
Settled(r, ok) ==
    LET rel == [r EXCEPT !.released = IF ReleasesClient(ok) THEN @ + 1 ELSE @]
        k == CacheKey(r.user, r.dbType)
        st == StoresOnMiss(CacheFull(k))
    IN IF r.kind = "context" /\ ReachesCacheSet(ok)
       THEN Finished([rel EXCEPT !.fetched = ok, !.stored = st,
                                 !.result = IF st THEN handles[r.pool].row ELSE NoRow],
                     IF st THEN "done" ELSE "failed")
       ELSE Finished(rel, IF ok THEN "done" ELSE "failed")

\* await client.query(...) settles; on the last statement, or on a failure, the
\* function leaves its try block and returns or throws.
QuerySettles(q) ==
    /\ req[q].pc \in {"q1", "q2"}
    /\ \E ok \in BOOLEAN :
         IF ok /\ req[q].pc = "q1" /\ HasSecondStatement(req[q].kind)
         THEN /\ req' = [req EXCEPT ![q].pc = "q2"]
              /\ UNCHANGED <<fin, cache>>
         ELSE /\ req' = Without(req, q)
              /\ fin' = fin \cup {Settled(req[q], ok)}
              /\ cache' = IF Settled(req[q], ok).stored
                          THEN CacheSet(CacheKey(req[q].user, req[q].dbType),
                                        ParsedContext(req[q].pool, req[q].dbType))
                          ELSE cache
    /\ UNCHANGED <<rows, pools, handles, sw, ec, started, epoch, switched, add,
                   others, hits, misses, seen, callVars, aiVars, acquireVars>>

\* getSchemaContext up to its await: the cache lookup and, on a miss, the
\* synchronous start of getDatabaseSchema, which is getPool.
ContextLookup(q) ==
    LET k == CacheKey(req[q].user, req[q].dbType)
    IN /\ req[q].pc = "getpool"
       /\ req[q].kind = "context"
       /\ IF CacheHas(k)
          THEN /\ hits' = hits + 1
               /\ seen' = [seen EXCEPT !.present = @ + 1]
               /\ req' = Without(req, q)
               /\ fin' = fin \cup {Finished([req[q] EXCEPT !.hit = TRUE,
                                                           !.result = cache[k].source],
                                             "done")}
               /\ UNCHANGED <<misses, pools, handles, epoch>>
          ELSE /\ misses' = misses + 1
               /\ seen' = [seen EXCEPT !.absent = @ + 1]
               /\ GetPoolCall(q)
               /\ UNCHANGED hits
       /\ UNCHANGED <<rows, sw, ec, started, switched, add, cache, others, callVars, aiVars, acquireVars>>

----------------------------------------------------------------------------
(* workspace.controller.ts: switchConnection *)

NewSwitch(u, cid) ==
    [pc |-> "start", user |-> u, target |-> cid, pool |-> NoPool,
     outcome |-> "none", entry |-> NoPool]

\* What is kept of a switch request that has been answered with status.
Answered(u, status) == [kind |-> "switch", user |-> u, status |-> status]

\* Requests of user u that are in flight get marked as overlapping a switch.
MarkOverlap(u) ==
    [q \in ReqIds |-> IF req[q].user = u THEN [req[q] EXCEPT !.overlap = TRUE] ELSE req[q]]

\* The handler up to its first suspension: the 400 check, then closePool's
\* synchronous part (pools.get and, for an entry, the call of pool.end()).
SwitchStart(u, cid) ==
    /\ started < MaxOps
    /\ started' = started + 1
    /\ IF cid = NoRow
       THEN /\ fin' = fin \cup {Answered(u, 400)}
            /\ UNCHANGED <<handles, req, sw>>
       ELSE IF pools[u] # NoPool
       THEN /\ handles' = MarkEnding(pools[u])
            /\ sw' = Append(sw, [NewSwitch(u, cid) EXCEPT !.pc = "closing", !.pool = pools[u]])
            /\ req' = MarkOverlap(u)
            /\ UNCHANGED fin
       ELSE /\ sw' = Append(sw, [NewSwitch(u, cid) EXCEPT !.pc = "closed"])
            /\ req' = MarkOverlap(u)
            /\ UNCHANGED <<handles, fin>>
    /\ UNCHANGED <<rows, pools, ec, epoch, switched, add, cacheVars, callVars, aiVars, acquireVars>>

\* closePool resumes after await pool.end(): catch, finally, return.
SwitchCloseDone(s) ==
    LET u == sw[s].user
    IN /\ sw[s].pc = "closing"
       /\ \E outcome \in EndOutcomes :
            /\ pools' = PoolsAfterClose(u, outcome)
            /\ epoch' = [epoch EXCEPT ![u] = Removed(@, sw[s].pool)]
            /\ IF ClosePoolResult(outcome) = "resolved"
               THEN /\ sw' = [sw EXCEPT ![s] =
                                [@ EXCEPT !.pc = "closed", !.outcome = outcome,
                                          !.entry = PoolsAfterClose(u, outcome)[u]]]
                    /\ UNCHANGED fin
               ELSE /\ sw' = Without(sw, s)
                    /\ fin' = fin \cup {Answered(u, 500)}
       /\ UNCHANGED <<rows, handles, req, ec, started, switched, add, cacheVars, callVars, aiVars, acquireVars>>

\* UPDATE user_connections SET is_active = false WHERE user_id = $1
DeactivateAll(u) ==
    [i \in RowIds |-> IF rows[i].user = u THEN [rows[i] EXCEPT !.active = FALSE] ELSE rows[i]]

SwitchDeactivate(s) ==
    /\ sw[s].pc = "closed"
    /\ rows' = DeactivateAll(sw[s].user)
    /\ sw' = [sw EXCEPT ![s] = [NewSwitch(@.user, @.target) EXCEPT !.pc = "deactivated"]]
    /\ UNCHANGED <<pools, handles, req, ec, fin, started, epoch, switched, add, cacheVars, callVars, aiVars, acquireVars>>

\* UPDATE ... SET is_active = true WHERE id = $1 AND user_id = $2 RETURNING id
ActivateMatches(u, cid) == cid \in RowIds /\ rows[cid].user = u

SwitchActivate(s) ==
    LET u == sw[s].user
    IN /\ sw[s].pc = "deactivated"
       /\ sw' = Without(sw, s)
       /\ IF ActivateMatches(u, sw[s].target)
          THEN /\ rows' = [rows EXCEPT ![sw[s].target].active = TRUE]
               /\ fin' = fin \cup {Answered(u, 200)}
               /\ switched' = [switched EXCEPT ![u] = sw[s].target]
          ELSE /\ fin' = fin \cup {Answered(u, 404)}
               /\ UNCHANGED <<rows, switched>>
       /\ UNCHANGED <<pools, handles, req, ec, started, epoch, add, cacheVars, callVars, aiVars, acquireVars>>

----------------------------------------------------------------------------
(* Pool-level errors *)

\* A closePool call that has invoked end() on handle h and awaits it.
EndPending(h) ==
    \/ \E s \in SwIds : sw[s].pc = "closing" /\ sw[s].pool = h
    \/ \E i \in EcIds : ec[i].pool = h

\* A pool can report an unrecoverable error until its shutdown has settled.
CanEmitError(h) == ~handles[h].ending \/ EndPending(h)

\* What is kept of an error event of handle h.
ErrorEvent(h, called) ==
    [kind |-> "error", user |-> handles[h].user, mysql |-> handles[h].mysql,
     closeCalled |-> called]

\* What is kept of a closePool call started by an observer.
ObserverClose(u, outcome, entry) ==
    [kind |-> "close", user |-> u, outcome |-> outcome, entry |-> entry]

\* The underlying pool of handle h reports an unrecoverable error.  With an
\* observer registered, the observer calls this.closePool(userId) without
\* awaiting it; closePool's synchronous part runs at once.
PoolError(h) ==
    LET u == handles[h].user
    IN /\ started < MaxOps
       /\ started' = started + 1
       /\ CanEmitError(h)
       /\ fin' = fin \cup {ErrorEvent(h, handles[h].observer)}
       /\ IF handles[h].observer /\ pools[u] # NoPool
          THEN /\ handles' = MarkEnding(pools[u])
               /\ ec' = Append(ec, [user |-> u, pool |-> pools[u]])
          ELSE UNCHANGED <<handles, ec>>
       /\ UNCHANGED <<rows, pools, req, sw, epoch, switched, add, cacheVars, callVars, aiVars, acquireVars>>

\* The observer's closePool resumes after await pool.end().
ErrorCloseDone(i) ==
    LET u == ec[i].user
    IN /\ \E outcome \in EndOutcomes :
            /\ pools' = PoolsAfterClose(u, outcome)
            /\ fin' = fin \cup {ObserverClose(u, outcome, PoolsAfterClose(u, outcome)[u])}
       /\ epoch' = [epoch EXCEPT ![u] = Removed(@, ec[i].pool)]
       /\ ec' = Without(ec, i)
       /\ UNCHANGED <<rows, handles, req, sw, started, switched, add, cacheVars, callVars, aiVars, acquireVars>>

----------------------------------------------------------------------------
(* workspace.controller.ts: addConnection *)

\* if (count >= 5) return res.status(400)
MaxConnections == 5

RejectsAdd(count) == count >= MaxConnections

\* const isActive = count === 0
IsFirst(count) == count = 0

\* SELECT COUNT(*)::int FROM user_connections WHERE user_id = $1
CountOf(u) == Cardinality({i \in RowIds : rows[i].user = u})

AddIds == 1..Len(add)

\* What is kept of an addConnection request that has been answered.
AddAnswered(u, status, count) ==
    [kind |-> "add", user |-> u, status |-> status, full |-> count >= MaxConnections]

\* The handler up to its second await: the COUNT statement has run, the limit
\* is checked on its result, and the INSERT is on its way with the flag
\* computed from that same result.
AddStart(u, scheme) ==
    /\ started < MaxOps
    /\ started' = started + 1
    /\ IF RejectsAdd(CountOf(u))
       THEN /\ fin' = fin \cup {AddAnswered(u, 400, CountOf(u))}
            /\ UNCHANGED add
       ELSE /\ add' = Append(add, [user |-> u, scheme |-> scheme,
                                   active |-> IsFirst(CountOf(u)),
                                   count |-> CountOf(u)])
            /\ UNCHANGED fin
    /\ UNCHANGED <<rows, pools, handles, req, sw, ec, epoch, switched, cacheVars, callVars, aiVars, acquireVars>>

\* INSERT INTO user_connections (user_id, label, encrypted_url, is_active)
AddInsert(a) ==
    /\ rows' = Append(rows, [user |-> add[a].user, scheme |-> add[a].scheme,
                             active |-> add[a].active])
    /\ add' = Without(add, a)
    /\ fin' = fin \cup {AddAnswered(add[a].user, 201, add[a].count)}
    /\ UNCHANGED <<pools, handles, req, sw, ec, started, epoch, switched, cacheVars, callVars, aiVars, acquireVars>>

----------------------------------------------------------------------------
(* The engine as a whole *)

RequestKinds == {"query", "schema"}

\* connectionId values of a switch request: missing (NoRow), or the id of a
\* stored row, the user's own or another user's.
SwitchTargets == {NoRow} \cup RowIds

Next ==
    \/ \E u \in Users, k \in RequestKinds : StartRequest(u, k, "postgres")
    \/ \E q \in ReqIds : GetPool(q)
    \/ \E q \in ReqIds : Connect(q)
    \/ \E q \in ReqIds : QuerySettles(q)
    \/ \E u \in Users, cid \in SwitchTargets : SwitchStart(u, cid)
    \/ \E s \in SwIds : SwitchCloseDone(s)
    \/ \E s \in SwIds : SwitchDeactivate(s)
    \/ \E s \in SwIds : SwitchActivate(s)
    \/ \E h \in HandleIds : PoolError(h)
    \/ \E i \in EcIds : ErrorCloseDone(i)

Spec == Init /\ [][Next]_vars

----------------------------------------------------------------------------
(* The workspace: connections being added and switched *)

\* The store when one user has saved connections up to one short of the
\* limit and the other has saved none.
WsRows ==
    [i \in 1..(MaxConnections - 1) |->
        [user |-> "u1", scheme |-> "postgres", active |-> (i = 1)]]

\* The pool the first user's earlier queries have left in the manager.
WsHandle ==
    [user |-> "u1", row |-> 1, mysql |-> FALSE, observer |-> TRUE,
     ending |-> FALSE, epoch |-> 0]

InitWs ==
    /\ rows = WsRows
    /\ pools = [u \in Users |-> IF u = "u1" THEN 1 ELSE NoPool]
    /\ handles = <<WsHandle>>
    /\ req = <<>>
    /\ sw = <<>>
    /\ ec = <<>>
    /\ fin = {}
    /\ started = 0
    /\ epoch = [u \in Users |-> [n |-> 0, got |-> pools[u], closed |-> NoPool]]
    /\ switched = [u \in Users |-> NoRow]
    /\ add = <<>>
    /\ cache = <<>>
    /\ others = 0
    /\ hits = 0
    /\ misses = 0
    /\ seen = [present |-> 0, absent |-> 0]
    /\ inp = NoCall
    /\ out = NoCall
    /\ AiIdle
    /\ AcquireIdle

AddSchemes == {"postgres", "mysql"}

NextWs ==
    \/ \E u \in Users, scheme \in AddSchemes : AddStart(u, scheme)
    \/ \E a \in AddIds : AddInsert(a)
    \/ \E u \in Users, cid \in SwitchTargets : SwitchStart(u, cid)
    \/ \E s \in SwIds : SwitchCloseDone(s)
    \/ \E s \in SwIds : SwitchDeactivate(s)
    \/ \E s \in SwIds : SwitchActivate(s)

SpecWs == InitWs /\ [][NextWs]_vars

\* The closePool calls of error observers that can be awaiting end() when the
\* first user's earlier queries have left a pool in the manager: none, or the
\* one the observer started when that pool reported an error.
PendingCloses == {<<>>, <<[user |-> "u1", pool |-> 1]>>}

\* The pool manager when the first user's earlier queries have left a pool in
\* it, idle or being shut down by its error observer.
InitPooled ==
    /\ rows = WsRows
    /\ pools = [u \in Users |-> IF u = "u1" THEN 1 ELSE NoPool]
    /\ ec \in PendingCloses
    /\ handles = <<[WsHandle EXCEPT !.ending = (ec # <<>>)]>>
    /\ req = <<>>
    /\ sw = <<>>
    /\ fin = {}
    /\ started = 0
    /\ epoch = [u \in Users |-> [n |-> 0, got |-> pools[u], closed |-> NoPool]]
    /\ switched = [u \in Users |-> NoRow]
    /\ add = <<>>
    /\ cache = <<>>
    /\ others = 0
    /\ hits = 0
    /\ misses = 0
    /\ seen = [present |-> 0, absent |-> 0]
    /\ inp = NoCall
    /\ out = NoCall
    /\ AiIdle
    /\ AcquireIdle

\* Requests, switches and pool errors from there on.
SpecPooled == InitPooled /\ [][Next]_vars

----------------------------------------------------------------------------
(* The schema cache: requests that need the schema context *)

DbTypes == {"postgres", "mysql"}

\* The cache may already hold entries of other tenants: none, one short of
\* maxKeys, or maxKeys of them.
OtherEntries == {0, MaxKeys - 1, MaxKeys}

InitCache ==
    /\ rows = StoredRows
    /\ pools = [u \in Users |-> NoPool]
    /\ handles = <<>>
    /\ req = <<>>
    /\ sw = <<>>
    /\ ec = <<>>
    /\ fin = {}
    /\ started = 0
    /\ epoch = [u \in Users |-> [n |-> 0, got |-> NoPool, closed |-> NoPool]]
    /\ switched = [u \in Users |-> NoRow]
    /\ add = <<>>
    /\ cache = <<>>
    /\ others \in OtherEntries
    /\ hits = 0
    /\ misses = 0
    /\ seen = [present |-> 0, absent |-> 0]
    /\ inp = NoCall
    /\ out = NoCall
    /\ AiIdle
    /\ AcquireIdle

NextCache ==
    \/ \E u \in Users, d \in DbTypes : StartRequest(u, "context", d)
    \/ \E q \in ReqIds : ContextLookup(q)
    \/ \E q \in ReqIds : Connect(q)
    \/ \E q \in ReqIds : QuerySettles(q)

SpecCache == InitCache /\ [][NextCache]_vars

\* The schema cache while the tenants switch connections.
NextSwitched ==
    \/ NextCache
    \/ \E u \in Users, cid \in SwitchTargets : SwitchStart(u, cid)
    \/ \E s \in SwIds : SwitchCloseDone(s)
    \/ \E s \in SwIds : SwitchDeactivate(s)
    \/ \E s \in SwIds : SwitchActivate(s)

SpecSwitched == Init /\ [][NextSwitched]_vars

----------------------------------------------------------------------------
(* The schema cache: invalidation *)

\* Tenant identifiers are strings; one of them continues another after a ':'.
Tenants == {"t", "t:x", "tx"}

TenantKeys(u) == {CacheKey(u, d) : d \in DbTypes}
AllKeys == UNION {TenantKeys(u) : u \in Tenants}

\* The context cached under key k (which connection it was read from does
\* not matter to invalidation).
EntryOf(k) == [source |-> 1, databaseType |-> k[Len(k)]]

InitInv ==
    /\ rows = StoredRows
    /\ pools = [u \in Users |-> NoPool]
    /\ handles = <<>>
    /\ req = <<>>
    /\ sw = <<>>
    /\ ec = <<>>
    /\ fin = {}
    /\ started = 0
    /\ epoch = [u \in Users |-> [n |-> 0, got |-> NoPool, closed |-> NoPool]]
    /\ switched = [u \in Users |-> NoRow]
    /\ add = <<>>
    /\ \E held \in SUBSET AllKeys : cache = [k \in held |-> EntryOf(k)]
    /\ others = 0
    /\ hits = 0
    /\ misses = 0
    /\ seen = [present |-> 0, absent |-> 0]
    /\ inp = NoCall
    /\ out = NoCall
    /\ AiIdle
    /\ AcquireIdle

\* schemaAnalyzer.invalidateUserCache(u): synchronous, one step.
Invalidate(u) ==
    /\ started < MaxOps
    /\ started' = started + 1
    /\ cache' = InvalidateUserCache(cache, u)
    /\ inp' = u
    /\ out' = cache
    /\ UNCHANGED <<rows, pools, handles, req, sw, ec, fin, epoch, switched, add,
                   others, hits, misses, seen, aiVars, acquireVars>>

NextInv == \E u \in Tenants : Invalidate(u)

SpecInv == InitInv /\ [][NextInv]_vars

----------------------------------------------------------------------------
(* The schema cache: invalidation while requests are in flight *)

MaxInvalidations == 1

\* out keeps the last invalidation: its tenant, how many cache lookups had
\* been counted when it returned, and how many invalidations there have been.
Invalidations == IF Len(out) = 0 THEN 0 ELSE out[3]

\* invalidateUserCache(userId) has no await: it runs between the steps of the
\* requests in flight.
InvalidateCall(u) ==
    /\ Invalidations < MaxInvalidations
    /\ cache' = InvalidateUserCache(cache, u)
    /\ out' = <<u, hits + misses, Invalidations + 1>>
    /\ UNCHANGED <<coreVars, add, others, hits, misses, seen, inp, aiVars, acquireVars>>

NextFresh ==
    \/ NextCache
    \/ \E u \in Users : InvalidateCall(u)

SpecFresh == InitCache /\ [][NextFresh]_vars

----------------------------------------------------------------------------
(* encryption.js: the credential vault *)

\* Values of one byte of a Buffer.
ByteValues == 256

IV_LENGTH == 16
TAG_LENGTH == 16

MaxTextLen == 2     \* bytes of a connection string

\* const KEY = Buffer.from(process.env.ENCRYPTION_KEY, 'hex'), and the key of
\* another deployment or of a time before a rotation.
KEY == "k1"
RotatedKey == "k2"
KeyByte(key) == IF key = KEY THEN 17 ELSE 42

\* The UTF-8 bytes of the connection strings that are encrypted.
TextBytes == {0, 109, 255}
Texts == UNION {[1..n -> TextBytes] : n \in 0..MaxTextLen}

\* crypto.randomBytes(IV_LENGTH)
Nonces == {[i \in 1..IV_LENGTH |-> (m * i) % ByteValues] : m \in {0, 7, 255}}

\* aes-256-gcm encrypts in counter mode: byte i of the text is combined with
\* byte i of a pad that depends on the key and on the nonce.
Pad(key, iv, i) == (KeyByte(key) + iv[((i - 1) % Len(iv)) + 1] + i) % ByteValues
Cipher(key, iv, text) ==
    [i \in 1..Len(text) |-> (text[i] + Pad(key, iv, i)) % ByteValues]
Decipher_SameDirection(key, iv, ct) == Cipher(key, iv, ct)
Decipher(key, iv, ct) ==
    [i \in 1..Len(ct) |-> (ct[i] + ByteValues - Pad(key, iv, i)) % ByteValues]

\* cipher.getAuthTag(): TAG_LENGTH bytes that authenticate key, nonce and
\* ciphertext.  A byte of the tag is written as the tuple of what it
\* authenticates, so two tags agree only when key, nonce and ciphertext do.
AuthTag(key, iv, ct) ==
    [j \in 1..TAG_LENGTH |-> <<j, KeyByte(key), Len(iv)>> \o iv \o ct]

\* A character of a token is the pair of hex digits of one byte, <<b>>, or
\* the ':' between two parts, <<>>.
Colon == <<>>
ToHex(bytes) == [i \in 1..Len(bytes) |-> <<bytes[i]>>]
FromHex(chars) == [i \in 1..Len(chars) |-> chars[i][1]]

\* `${iv.toString('hex')}:${authTag}:${encrypted}`
Join(ivHex, tagHex, ctHex) == ivHex \o <<Colon>> \o tagHex \o <<Colon>> \o ctHex

encrypt(text, key, iv) ==
    LET ct == Cipher(key, iv, text)
    IN Join(ToHex(iv), AuthTag(key, iv, ct), ToHex(ct))

\* String.prototype.split(':')
RECURSIVE Split(_)
Split(s) ==
    IF \A i \in 1..Len(s) : s[i] # Colon
    THEN <<s>>
    ELSE LET i == CHOOSE j \in 1..Len(s) :
                    s[j] = Colon /\ \A k \in 1..(j - 1) : s[k] # Colon
         IN <<SubSeq(s, 1, i - 1)>> \o Split(SubSeq(s, i + 1, Len(s)))

\* decipher.setAuthTag(authTag) without the authTagLength option accepts a
\* tag of any of the lengths that GCM allows.
ValidTagLengths == {4, 8, 12, 13, 14, 15, 16}

AcceptsTagLength(n) == n \in ValidTagLengths

\* decipher.final(): the tag given is compared with as many bytes of the tag
\* computed over key, nonce and ciphertext.
TagVerifies(tag, key, iv, ct) == tag = SubSeq(AuthTag(key, iv, ct), 1, Len(tag))

Thrown == [ok |-> FALSE, value |-> <<>>]
Returned(text) == [ok |-> TRUE, value |-> text]

decrypt(hash, key) ==
    LET parts == Split(hash)
    IN IF Len(parts) < 2 THEN Thrown              \* Buffer.from(undefined, 'hex')
       ELSE IF Len(parts[1]) = 0 THEN Thrown      \* createDecipheriv: invalid iv
       ELSE IF ~AcceptsTagLength(Len(parts[2])) THEN Thrown
       ELSE IF Len(parts) < 3 THEN Thrown         \* decipher.update(undefined)
       ELSE LET iv == FromHex(parts[1])
                ct == FromHex(parts[3])
            IN IF TagVerifies(parts[2], key, iv, ct)
               THEN Returned(Decipher(key, iv, ct))
               ELSE Thrown

\* What can happen to a token between encrypt and decrypt: nothing; one of its
\* three parts is lost with its ':'; a part loses its last `by` characters;
\* the first byte of a part is altered.
TokenParts == {"nonce", "tag", "ciphertext"}
Damages ==
    {[kind |-> "none", part |-> "nonce", by |-> 0]}
      \cup [kind : {"missing", "forged"}, part : TokenParts, by : {0}]
      \cup [kind : {"shortened"}, part : TokenParts, by : 1..TAG_LENGTH]

PartIndex(part) == CASE part = "nonce" -> 1 [] part = "tag" -> 2 [] OTHER -> 3

Forged(chars) == [chars EXCEPT ![1] = <<(IF Len(@) = 1 THEN @[1] + 1 ELSE 0) % ByteValues>>]

\* Whether damage d can be done to a token with these parts.
Applies(parts, d) ==
    CASE d.kind = "shortened" -> d.by <= Len(parts[PartIndex(d.part)])
      [] d.kind = "forged" -> Len(parts[PartIndex(d.part)]) > 0
      [] OTHER -> TRUE

RECURSIVE JoinAll(_)
JoinAll(parts) ==
    IF Len(parts) = 1 THEN parts[1]
    ELSE parts[1] \o <<Colon>> \o JoinAll(Tail(parts))

Damaged(token, d) ==
    LET parts == Split(token)
        p == PartIndex(d.part)
        chars == parts[p]
    IN CASE d.kind = "missing" -> JoinAll(Without(parts, p))
         [] d.kind = "shortened" ->
              JoinAll([parts EXCEPT ![p] = SubSeq(chars, 1, Len(chars) - d.by)])
         [] d.kind = "forged" -> JoinAll([parts EXCEPT ![p] = Forged(chars)])
         [] OTHER -> token

\* A connection string is encrypted under a key with a nonce, the token is
\* stored, and what is read back is decrypted under the process-wide key.
InitVault ==
    /\ rows = StoredRows
    /\ pools = [u \in Users |-> NoPool]
    /\ handles = <<>>
    /\ req = <<>>
    /\ sw = <<>>
    /\ ec = <<>>
    /\ fin = {}
    /\ started = 0
    /\ epoch = [u \in Users |-> [n |-> 0, got |-> NoPool, closed |-> NoPool]]
    /\ switched = [u \in Users |-> NoRow]
    /\ add = <<>>
    /\ cache = <<>>
    /\ others = 0
    /\ hits = 0
    /\ misses = 0
    /\ seen = [present |-> 0, absent |-> 0]
    /\ inp \in {i \in [text : Texts, iv : Nonces, key : {KEY, RotatedKey}, damage : Damages] :
                   Applies(Split(encrypt(i.text, i.key, i.iv)), i.damage)}
    /\ out = NoCall
    /\ AiIdle
    /\ AcquireIdle

EncryptCall ==
    /\ started = 0
    /\ started' = 1
    /\ out' = [token |-> Damaged(encrypt(inp.text, inp.key, inp.iv), inp.damage),
               result |-> Thrown, decrypted |-> FALSE]
    /\ UNCHANGED <<rows, pools, handles, req, sw, ec, fin, epoch, switched, add,
                   cacheVars, inp, aiVars, acquireVars>>

DecryptCall ==
    /\ started = 1
    /\ ~out.decrypted
    /\ out' = [out EXCEPT !.result = decrypt(out.token, KEY), !.decrypted = TRUE]
    /\ UNCHANGED <<coreVars, add, cacheVars, inp, aiVars, acquireVars>>

NextVault == EncryptCall \/ DecryptCall

SpecVault == InitVault /\ [][NextVault]_vars

----------------------------------------------------------------------------
(* ai.service.ts: QueryValidator.  A query is the sequence of its words, the
   pieces between white space; the patterns of the validator are read on the
   words. *)

\* String.prototype.toLowerCase on the words that have capital letters.
Lower(w) ==
    CASE w = "SELECT" -> "select" [] w = "DELETE" -> "delete"
      [] w = "UPDATE" -> "update" [] w = "FROM" -> "from"
      [] w = "JOIN" -> "join" [] w = "WHERE" -> "where"
      [] w = "UNION" -> "union" [] w = "Users" -> "users"
      [] OTHER -> w

\* The words that match [a-zA-Z_][a-zA-Z0-9_]* as a whole.
IdentifierWords ==
    {"SELECT", "DELETE", "UPDATE", "FROM", "from", "JOIN", "WHERE", "UNION",
     "users", "Users", "ghost", "email"}

\* The words of the form identifier.identifier, with their two sides.
DottedWords == {"orders.user_id", "users.email"}
SplitDot(w) ==
    CASE w = "orders.user_id" -> <<"orders", "user_id">>
      [] w = "users.email" -> <<"users", "email">>
      [] OTHER -> <<w>>

\* What ([a-zA-Z_][a-zA-Z0-9_]*) captures at the start of a word; "" when the
\* word does not start with a letter or '_' ("2fa", "*", "=", "'x'", "(", ";", "--").
LeadingIdentifier(w) ==
    IF w \in IdentifierWords THEN w
    ELSE IF w \in DottedWords THEN SplitDot(w)[1]
    ELSE ""

\* The words that match [a-zA-Z_][a-zA-Z0-9_.]* as a whole.
IsColumnRef(w) == w \in IdentifierWords \cup DottedWords

Is(w, keyword) == Lower(w) = keyword

\* (?:FROM|JOIN|INTO|UPDATE) with the flag i
TableKeyword(w) == Lower(w) \in {"from", "join", "into", "update"}

Occurrences(q, w) == Cardinality({i \in 1..Len(q) : q[i] = w})

Problem(msg, about) == [msg |-> msg, about |-> about]

\* checkBasicSyntax
BasicErrors(q) ==
    IF Len(q) = 0 THEN <<Problem("Query cannot be empty", "")>>
    ELSE (IF Occurrences(q, "(") # Occurrences(q, ")")
          THEN <<Problem("Mismatched parentheses", "")>> ELSE <<>>)
      \o (IF Occurrences(q, ";") > 1
          THEN <<Problem("Multiple statements are not allowed", "")>> ELSE <<>>)
      \o (IF Lower(q[1]) \in {"select", "insert", "update", "delete", "with", "create", "alter"}
          THEN <<>> ELSE <<Problem("Unsupported or invalid SQL statement type", "")>>)

BasicWarnings(q) ==
    IF Len(q) > 0 /\ Occurrences(q, ";") <= 1 /\ q[Len(q)] = ";"
    THEN <<Problem("Trailing semicolon detected", "")>> ELSE <<>>

\* query.match(/(?:FROM|JOIN|INTO|UPDATE)\s+([a-zA-Z_][a-zA-Z0-9_]*)/gi): the
\* matches from word i on, left to right, none overlapping another; of each,
\* ref.split(/\s+/)[1]?.toLowerCase()
RECURSIVE TableRefs(_, _)
TableRefs(q, i) ==
    IF i >= Len(q) THEN <<>>
    ELSE IF TableKeyword(q[i]) /\ LeadingIdentifier(q[i + 1]) # ""
    THEN <<Lower(LeadingIdentifier(q[i + 1]))>> \o TableRefs(q, i + 2)
    ELSE TableRefs(q, i + 1)

\* new Set(schemaContext.tables.map((table) => table.tableName.toLowerCase()))
TableNames(ctx) == {Lower(ctx[t].tableName) : t \in 1..Len(ctx)}

ReportsMissing_Never(table, names) == FALSE

\* if (table && !tableNames.has(table)) errors.push(...)
ReportsMissing(table, names) == table \notin names

RECURSIVE MissingTables(_, _)
MissingTables(refs, names) ==
    IF Len(refs) = 0 THEN <<>>
    ELSE (IF ReportsMissing(Head(refs), names)
          THEN <<Problem("Table does not exist in schema", Head(refs))>> ELSE <<>>)
         \o MissingTables(Tail(refs), names)

\* schemaContext.tables.find(... toLowerCase() === tableName.toLowerCase())
FindTable(ctx, name) ==
    LET found == {t \in 1..Len(ctx) : Lower(ctx[t].tableName) = Lower(name)}
    IN IF found = {} THEN 0 ELSE CHOOSE t \in found : \A x \in found : t <= x

columnExists(ctx, tableName, columnName) ==
    /\ FindTable(ctx, tableName) # 0
    /\ \E c \in ctx[FindTable(ctx, tableName)].columns : Lower(c) = Lower(columnName)

hasIndex(ctx, tableName, columnName) ==
    /\ FindTable(ctx, tableName) # 0
    /\ \E c \in ctx[FindTable(ctx, tableName)].indexed : Lower(c) = Lower(columnName)

\* The qualified references that cannot be confirmed, in the order of the words.
RECURSIVE UnconfirmedColumns(_, _, _)
UnconfirmedColumns(q, ctx, i) ==
    IF i > Len(q) THEN <<>>
    ELSE (IF q[i] \in DottedWords /\ ~columnExists(ctx, SplitDot(q[i])[1], SplitDot(q[i])[2])
          THEN <<Problem("Column reference could not be confirmed", q[i])>> ELSE <<>>)
         \o UnconfirmedColumns(q, ctx, i + 1)

\* Whether words w1 w2 stand next to each other somewhere in q.
Adjacent(q, w1, w2) == \E i \in 1..(Len(q) - 1) : Is(q[i], w1) /\ Is(q[i + 1], w2)

\* checkSecurityIssues: of the patterns, the words of the model can spell
\* UNION SELECT; "--" starts a comment.
SecurityWarnings(q) ==
    (IF Adjacent(q, "union", "select")
     THEN <<Problem("Potential SQL injection pattern detected", "")>> ELSE <<>>)
    \o (IF \E i \in 1..Len(q) : q[i] = "--"
        THEN <<Problem("Query contains comments", "")>> ELSE <<>>)

\* /\bWHERE\b/i.test(query)
HasWhere(q) == \E i \in 1..Len(q) : Is(q[i], "where")

\* /DELETE\s+FROM\s+[a-zA-Z_][a-zA-Z0-9_]*/i.test(query)
HasDeleteFrom(q) ==
    \E i \in 1..(Len(q) - 2) :
        Is(q[i], "delete") /\ Is(q[i + 1], "from") /\ LeadingIdentifier(q[i + 2]) # ""

\* /UPDATE\s+[a-zA-Z_][a-zA-Z0-9_]*/i.test(query)
HasUpdate(q) ==
    \E i \in 1..(Len(q) - 1) : Is(q[i], "update") /\ LeadingIdentifier(q[i + 1]) # ""

WarnsDelete_Always(q) == TRUE

WarnsDelete(q) == HasDeleteFrom(q) /\ ~HasWhere(q)

\* checkDangerousOperations (no word of the model spells DROP or TRUNCATE)
DangerWarnings(q) ==
    (IF WarnsDelete(q)
     THEN <<Problem("DELETE without WHERE will affect all rows", "")>> ELSE <<>>)
    \o (IF HasUpdate(q) /\ ~HasWhere(q)
        THEN <<Problem("UPDATE without WHERE will affect all rows", "")>> ELSE <<>>)

\* /JOIN\s+[a-zA-Z_][a-zA-Z0-9_]*(?![\s\S]*\bON\b)/i.test(query)
JoinWithoutOn(q) ==
    \E i \in 1..(Len(q) - 1) :
        /\ Is(q[i], "join") /\ LeadingIdentifier(q[i + 1]) # ""
        /\ \A k \in (i + 2)..Len(q) : ~Is(q[k], "on")

PerformanceWarnings(q) ==
    (IF \E i \in 1..(Len(q) - 1) : Is(q[i], "select") /\ q[i + 1] = "*"
     THEN <<Problem("SELECT * detected", "")>> ELSE <<>>)
    \o (IF JoinWithoutOn(q)
        THEN <<Problem("JOIN may be missing an ON clause", "")>> ELSE <<>>)
    \o (IF Adjacent(q, "cross", "join")
        THEN <<Problem("CROSS JOIN detected", "")>> ELSE <<>>)

\* query.match(/\bWHERE\s+([a-zA-Z_][a-zA-Z0-9_.]*)\s*=/gi), each match with
\* WHERE and = stripped: the column references, in order.
RECURSIVE WhereEqColumns(_, _)
WhereEqColumns(q, i) ==
    IF i + 2 > Len(q) THEN <<>>
    ELSE IF Is(q[i], "where") /\ IsColumnRef(q[i + 1]) /\ q[i + 2] = "="
    THEN <<q[i + 1]>> \o WhereEqColumns(q, i + 3)
    ELSE WhereEqColumns(q, i + 1)

\* columnRef.includes('.') ? columnRef.split('.') : [null, columnRef]
TableOfRef(ref) == IF ref \in DottedWords THEN SplitDot(ref)[1] ELSE ""
ColumnOfRef(ref) == IF ref \in DottedWords THEN SplitDot(ref)[2] ELSE ref

\* `CREATE INDEX idx_${tableName}_${columnName} ON ${tableName}(${columnName});`
CreateIndex(t, c) == <<"CREATE INDEX idx_", t, "_", c, " ON ", t, "(", c, ");">>

RECURSIVE SuggestedIndexes(_, _)
SuggestedIndexes(refs, ctx) ==
    IF Len(refs) = 0 THEN <<>>
    ELSE (IF TableOfRef(Head(refs)) # "" /\ ColumnOfRef(Head(refs)) # ""
             /\ ~hasIndex(ctx, TableOfRef(Head(refs)), ColumnOfRef(Head(refs)))
          THEN <<CreateIndex(TableOfRef(Head(refs)), ColumnOfRef(Head(refs)))>>
          ELSE <<>>)
         \o SuggestedIndexes(Tail(refs), ctx)

IsValid_NoWarnings(errors, warnings) == Len(errors) = 0 /\ Len(warnings) = 0

\* isValid: errors.length === 0
IsValid(errors, warnings) == Len(errors) = 0

validateQuery(q, ctx) ==
    LET errors == BasicErrors(q) \o MissingTables(TableRefs(q, 1), TableNames(ctx))
        warnings == BasicWarnings(q) \o UnconfirmedColumns(q, ctx, 1)
                      \o SecurityWarnings(q) \o DangerWarnings(q)
                      \o PerformanceWarnings(q)
    IN [isValid |-> IsValid(errors, warnings), errors |-> errors,
        warnings |-> warnings,
        suggestedIndexes |-> SuggestedIndexes(WhereEqColumns(q, 1), ctx)]

MaxWords == 2       \* words of a query made of any words

Words ==
    {"SELECT", "DELETE", "UPDATE", "FROM", "from", "JOIN", "WHERE", "UNION",
     "users", "Users", "ghost", "2fa", "email", "orders.user_id", "users.email",
     "*", "=", "'x'", "(", ";", "--"}

\* The words written where a statement names a table.
TableWords == {"users", "Users", "ghost", "2fa", "JOIN", "WHERE"}

WhereClauses ==
    {<<>>} \cup {<<"WHERE", c, "=", "'x'">> : c \in {"email", "orders.user_id", "users.email"}}

\* The queries validated: any words up to MaxWords, and statements of the
\* usual forms over the table words.
Queries ==
    UNION {[1..n -> Words] : n \in 0..MaxWords}
      \cup {<<"SELECT", "*", f, t>> \o w : f \in {"FROM", "from"}, t \in TableWords, w \in WhereClauses}
      \cup {<<"DELETE", "FROM", t>> \o w : t \in TableWords, w \in WhereClauses}
      \cup {<<"SELECT", "*", f, t1, "JOIN", t2>> :
               f \in {"FROM", "from"}, t1 \in TableWords, t2 \in TableWords}
      \cup {<<"SELECT", "*", "FROM", t1, t2>> : t1 \in TableWords, t2 \in TableWords}

Table(name, columns, indexed) ==
    [tableName |-> name, columns |-> columns, indexed |-> indexed]

\* schemaContext.tables: the schema of the validator's tests, the same with
\* every filtered column indexed, one with unusual table names, and none.
Contexts ==
    { <<Table("users", {"id", "email"}, {"id"}), Table("orders", {"id", "user_id"}, {})>>,
      <<Table("users", {"id", "email"}, {"id", "email"}),
        Table("orders", {"id", "user_id"}, {"user_id"})>>,
      <<Table("Users", {"email"}, {}), Table("2fa", {"id"}, {}), Table("WHERE", {"id"}, {})>>,
      <<>> }

InitValidator ==
    /\ rows = StoredRows
    /\ pools = [u \in Users |-> NoPool]
    /\ handles = <<>>
    /\ req = <<>>
    /\ sw = <<>>
    /\ ec = <<>>
    /\ fin = {}
    /\ started = 0
    /\ epoch = [u \in Users |-> [n |-> 0, got |-> NoPool, closed |-> NoPool]]
    /\ switched = [u \in Users |-> NoRow]
    /\ add = <<>>
    /\ cache = <<>>
    /\ others = 0
    /\ hits = 0
    /\ misses = 0
    /\ seen = [present |-> 0, absent |-> 0]
    /\ inp \in [query : Queries, ctx : Contexts]
    /\ out = NoCall
    /\ AiIdle
    /\ AcquireIdle

ValidateCall ==
    /\ started = 0
    /\ started' = 1
    /\ out' = validateQuery(inp.query, inp.ctx)
    /\ UNCHANGED <<rows, pools, handles, req, sw, ec, fin, epoch, switched, add,
                   cacheVars, inp, aiVars, acquireVars>>

NextValidator == ValidateCall

SpecValidator == InitValidator /\ [][NextValidator]_vars

----------------------------------------------------------------------------
(* query.service.js: executeQuery, with the result of client.query(sql) as
   each dialect's driver hands it over.  A JavaScript value carries its type;
   an object is the sequence of its entries <<key, value>>. *)

Num(n) == <<"number", n>>
Str(s) == <<"string", s>>
Null == <<"null">>
Undefined == <<"undefined">>

IsNumber(v) == Len(v) = 2 /\ v[1] = "number"

\* v ?? d
Coalesce(v, d) == IF v \in {Null, Undefined} THEN d ELSE v

\* v || d
OrElse(v, d) == IF v \in {Null, Undefined, Num(0)} THEN d ELSE v

HasKey(obj, k) == \E i \in 1..Len(obj) : obj[i][1] = k
Get(obj, k) == obj[CHOOSE i \in 1..Len(obj) : obj[i][1] = k][2]

\* One entry of an object literal or of a spread: an own key keeps its
\* place and takes the later value, a new key goes last.
SetKey(obj, k, v) ==
    IF HasKey(obj, k)
    THEN [i \in 1..Len(obj) |-> IF obj[i][1] = k THEN <<k, v>> ELSE obj[i]]
    ELSE Append(obj, <<k, v>>)

\* { ...obj, ...entries }
RECURSIVE Spread(_, _)
Spread(obj, entries) ==
    IF Len(entries) = 0 THEN obj
    ELSE Spread(SetKey(obj, Head(entries)[1], Head(entries)[2]), Tail(entries))

\* What a driver answers: pg a result with rows, fields and rowCount
\* (null for a command without a count); mysql2 the pair [result, fields],
\* result an array of rows with their fields, or a header object with
\* affectedRows and no fields.
Raw(kind, rs, fields, count) ==
    [kind |-> kind, rows |-> rs, fields |-> fields, count |-> count]

\* The header object as the row it becomes.
HeaderRow(raw) == << <<"affectedRows", raw.count>> >>

\* pool-manager.ts, the mysql adapter's query
MysqlQuery(raw) ==
    LET isArray == raw.kind = "rows"
    IN [rows |-> IF isArray THEN raw.rows ELSE <<HeaderRow(raw)>>,
        fields |-> IF isArray THEN raw.fields ELSE <<>>,
        rowCount |-> IF isArray THEN Num(Len(raw.rows)) ELSE OrElse(raw.count, Num(0))]

\* client.query(sql) of either dialect
ClientQuery(dialect, raw) ==
    IF dialect = "mysql" THEN MysqlQuery(raw)
    ELSE [rows |-> raw.rows, fields |-> raw.fields, rowCount |-> raw.count]

\* result.rows[0] as spread: undefined spreads nothing
FirstRow(rs) == IF Len(rs) = 0 THEN <<>> ELSE rs[1]

Synthesized_DriverRows(result) == result.rows

\* [{ Status: 'Success', ...result.rows[0] }]
Synthesized(result) == <<Spread(<< <<"Status", Str("Success")>> >>, FirstRow(result.rows))>>

\* executeQuery after client.query; the json answer has no columns
executeQuery(dialect, raw, format) ==
    LET result == ClientQuery(dialect, raw)
        hasFields == Len(result.fields) > 0
    IN IF format = "json"
       THEN [type |-> "json", columns |-> <<>>, rows |-> result.rows,
             rowCount |-> Coalesce(result.rowCount, Num(0))]
       ELSE [type |-> "table",
             columns |-> IF hasFields THEN result.fields ELSE <<"Status">>,
             rows |-> IF hasFields THEN result.rows ELSE Synthesized(result),
             rowCount |-> Coalesce(result.rowCount, Num(0))]

MaxRows == 2        \* rows of a driver's result

FieldLists == {<<>>, <<"id">>, <<"Status">>, <<"id", "Status">>}
CellValues == {Num(1), Str("x")}

\* The rows a result with these fields can hold.
RowsOf(fields) ==
    UNION {[1..n -> [1..Len(fields) -> CellValues]] : n \in 0..MaxRows}
NamedRow(fields, cells) == [i \in 1..Len(fields) |-> <<fields[i], cells[i]>>]
NamedRows(fields, rs) == [j \in 1..Len(rs) |-> NamedRow(fields, rs[j])]

RawResults(dialect) ==
    IF dialect = "mysql"
    THEN UNION {{Raw("rows", NamedRows(f, rs), f, Undefined) : rs \in RowsOf(f)} :
                    f \in FieldLists \ {<<>>}}
         \cup {Raw("header", <<>>, <<>>, Num(n)) : n \in 0..MaxRows}
    ELSE UNION {{Raw("pg", NamedRows(f, rs), f, c) :
                     rs \in RowsOf(f), c \in {Null} \cup {Num(n) : n \in 0..MaxRows}} :
                    f \in FieldLists}

InitQuery ==
    /\ rows = StoredRows
    /\ pools = [u \in Users |-> NoPool]
    /\ handles = <<>>
    /\ req = <<>>
    /\ sw = <<>>
    /\ ec = <<>>
    /\ fin = {}
    /\ started = 0
    /\ epoch = [u \in Users |-> [n |-> 0, got |-> NoPool, closed |-> NoPool]]
    /\ switched = [u \in Users |-> NoRow]
    /\ add = <<>>
    /\ cache = <<>>
    /\ others = 0
    /\ hits = 0
    /\ misses = 0
    /\ seen = [present |-> 0, absent |-> 0]
    /\ inp \in {i \in [dialect : {"postgres", "mysql"}, format : {"table", "json"},
                       raw : RawResults("postgres") \cup RawResults("mysql")] :
                   i.raw \in RawResults(i.dialect)}
    /\ out = NoCall
    /\ AiIdle
    /\ AcquireIdle

ExecuteCall ==
    /\ started = 0
    /\ started' = 1
    /\ out' = executeQuery(inp.dialect, inp.raw, inp.format)
    /\ UNCHANGED <<rows, pools, handles, req, sw, ec, fin, epoch, switched, add,
                   cacheVars, inp, aiVars, acquireVars>>

NextQuery == ExecuteCall

SpecQuery == InitQuery /\ [][NextQuery]_vars

----------------------------------------------------------------------------
(* schema-analyzer.ts: parseSchema, on the rows getDatabaseSchema hands over.
   Of a column row the table and column names are read here; data_type and
   is_nullable are copied into the column as they are. *)

NoName == ""        \* a name that is null or undefined

ColumnRow(t, c) == [table_name |-> t, column_name |-> c]

ConstraintRow(t, c, type, rt, rc) ==
    [table_name |-> t, column_name |-> c, constraint_type |-> type,
     referenced_table_name |-> rt, referenced_column_name |-> rc]

TableMetadata(name) ==
    [tableName |-> name, columns |-> <<>>, primaryKey |-> <<>>, indexes |-> <<>>]

ColumnMetadata(name) ==
    [columnName |-> name, isUnique |-> FALSE, isForeignKey |-> FALSE,
     foreignKeyReference |-> NoName]

\* tableMap.get(name): the place of the table, 0 when there is none
TableIndex(tables, name) ==
    LET found == {i \in 1..Len(tables) : tables[i].tableName = name}
    IN IF found = {} THEN 0 ELSE CHOOSE i \in found : \A j \in found : i <= j

\* table.columns.find((item) => item.columnName === name), 0 when none
ColumnIndex(table, name) ==
    LET found == {i \in 1..Len(table.columns) : table.columns[i].columnName = name}
    IN IF found = {} THEN 0 ELSE CHOOSE i \in found : \A j \in found : i <= j

\* One turn of the loop over rawSchema.schema
AddColumn(tables, row) ==
    LET known == IF TableIndex(tables, row.table_name) = 0
                 THEN Append(tables, TableMetadata(row.table_name)) ELSE tables
        t == TableIndex(known, row.table_name)
    IN [known EXCEPT ![t].columns = Append(@, ColumnMetadata(row.column_name))]

RECURSIVE ParseColumns(_, _)
ParseColumns(schemaRows, tables) ==
    IF Len(schemaRows) = 0 THEN tables
    ELSE ParseColumns(Tail(schemaRows), AddColumn(tables, Head(schemaRows)))

\* toColumn: constraint.referenced_column_name ?? constraint.column_name
ToColumn(k) ==
    IF k.referenced_column_name = NoName THEN k.column_name
    ELSE k.referenced_column_name

Relationship(k) ==
    [fromTable |-> k.table_name, toTable |-> k.referenced_table_name,
     fromColumn |-> k.column_name, toColumn |-> ToColumn(k), type |-> "ONE_TO_MANY"]

\* One turn of the loop over rawSchema.constraints
ApplyConstraint(ctx, k) ==
    LET t == TableIndex(ctx.tables, k.table_name)
        c == IF t = 0 THEN 0 ELSE ColumnIndex(ctx.tables[t], k.column_name)
    IN IF t = 0 \/ c = 0 THEN ctx
       ELSE IF k.constraint_type = "PRIMARY KEY"
       THEN [ctx EXCEPT !.tables[t].primaryKey = Append(@, k.column_name)]
       ELSE IF k.constraint_type = "UNIQUE"
       THEN [ctx EXCEPT !.tables[t].columns[c].isUnique = TRUE,
                        !.tables[t].indexes = Append(@, <<"uniq_", k.table_name, "_", k.column_name>>)]
       ELSE IF k.constraint_type = "FOREIGN KEY"
       THEN [ctx EXCEPT !.tables[t].columns[c].isForeignKey = TRUE,
                        !.tables[t].columns[c].foreignKeyReference = k.referenced_table_name,
                        !.relationships = IF k.referenced_table_name # NoName
                                          THEN Append(@, Relationship(k)) ELSE @]
       ELSE ctx

RECURSIVE ParseConstraints(_, _)
ParseConstraints(constraints, ctx) ==
    IF Len(constraints) = 0 THEN ctx
    ELSE ParseConstraints(Tail(constraints), ApplyConstraint(ctx, Head(constraints)))

parseSchema(rawSchema) ==
    ParseConstraints(rawSchema.constraints,
                     [tables |-> ParseColumns(rawSchema.schema, <<>>),
                      relationships |-> <<>>])

MaxColumnRows == 2          \* rows of rawSchema.schema
MaxConstraintRows == 1      \* rows of rawSchema.constraints

RawTables == {"users", "orders"}
RawColumns == {"id", "user_id"}
ConstraintTypes == {"PRIMARY KEY", "UNIQUE", "FOREIGN KEY"}

ColumnRows == {ColumnRow(t, c) : t \in RawTables, c \in RawColumns}

\* The constraint rows: the referenced table null, a table of the database
\* or one outside the rows read; the referenced column named or not selected.
ConstraintRows ==
    {ConstraintRow(t, c, type, rt, rc) :
        t \in RawTables, c \in RawColumns, type \in ConstraintTypes,
        rt \in {NoName, "users", "ghost"}, rc \in {NoName, "id"}}

RawSchemas ==
    [schema : UNION {[1..n -> ColumnRows] : n \in 0..MaxColumnRows},
     constraints : UNION {[1..n -> ConstraintRows] : n \in 0..MaxConstraintRows}]

InitParse ==
    /\ rows = StoredRows
    /\ pools = [u \in Users |-> NoPool]
    /\ handles = <<>>
    /\ req = <<>>
    /\ sw = <<>>
    /\ ec = <<>>
    /\ fin = {}
    /\ started = 0
    /\ epoch = [u \in Users |-> [n |-> 0, got |-> NoPool, closed |-> NoPool]]
    /\ switched = [u \in Users |-> NoRow]
    /\ add = <<>>
    /\ cache = <<>>
    /\ others = 0
    /\ hits = 0
    /\ misses = 0
    /\ seen = [present |-> 0, absent |-> 0]
    /\ inp \in RawSchemas
    /\ out = NoCall
    /\ AiIdle
    /\ AcquireIdle

ParseCall ==
    /\ started = 0
    /\ started' = 1
    /\ out' = parseSchema(inp)
    /\ UNCHANGED <<rows, pools, handles, req, sw, ec, fin, epoch, switched, add,
                   cacheVars, inp, aiVars, acquireVars>>

NextParse == ParseCall

SpecParse == InitParse /\ [][NextParse]_vars

----------------------------------------------------------------------------
(* ai.service.ts: AIService.  Text is kept as strings; where the code reads
   its bytes, Utf8 gives them. *)

QuestionNewest ==
    "show every order of the last thirty days with its customer and the total, newest first"
QuestionOldest ==
    "show every order of the last thirty days with its customer and the total, oldest first"

\* The words the two questions share.
QuestionStart ==
    <<115, 104, 111, 119, 32, 101, 118, 101, 114, 121, 32, 111, 114, 100, 101, 114, 32,
      111, 102, 32, 116, 104, 101, 32, 108, 97, 115, 116, 32, 116, 104, 105, 114, 116,
      121, 32, 100, 97, 121, 115, 32, 119, 105, 116, 104, 32, 105, 116, 115, 32, 99, 117,
      115, 116, 111, 109, 101, 114, 32, 97, 110, 100, 32, 116, 104, 101, 32, 116, 111,
      116, 97, 108, 44, 32>>

\* Buffer.from(s): the UTF-8 bytes of the strings of the model
Utf8(s) ==
    CASE s = "postgres" -> <<112, 111, 115, 116, 103, 114, 101, 115>>
      [] s = "mysql" -> <<109, 121, 115, 113, 108>>
      [] s = QuestionNewest -> QuestionStart \o <<110, 101, 119, 101, 115, 116, 32, 102,
        105, 114, 115, 116>>
      [] s = QuestionOldest -> QuestionStart \o <<111, 108, 100, 101, 115, 116, 32, 102,
        105, 114, 115, 116>>
      [] s = "users" -> <<117, 115, 101, 114, 115>>
      [] s = "orders" -> <<111, 114, 100, 101, 114, 115>>
      [] s = "id" -> <<105, 100>>
      [] s = "uuid" -> <<117, 117, 105, 100>>
      [] s = "integer" -> <<105, 110, 116, 101, 103, 101, 114>>

\* .toString('base64'): per three bytes four digits 0..63, the last group
\* filled up with the padding sign, here 64
Base64(bytes) ==
    LET n == Len(bytes)
        b(i) == IF i <= n THEN bytes[i] ELSE 0
    IN [i \in 1..(4 * ((n + 2) \div 3)) |->
          LET g == 3 * ((i - 1) \div 4)
              k == (i - 1) % 4
          IN IF k = 0 THEN b(g + 1) \div 4
             ELSE IF k = 1 THEN (b(g + 1) % 4) * 16 + b(g + 2) \div 16
             ELSE IF k = 2 THEN (IF g + 2 > n THEN 64
                                 ELSE (b(g + 2) % 16) * 4 + b(g + 3) \div 64)
             ELSE IF g + 3 > n THEN 64 ELSE b(g + 3) % 64]

\* getCacheKey keeps the first 96 digits: .slice(0, 96)
DigestLength == 96

Slice(s, end) == SubSeq(s, 1, IF Len(s) < end THEN Len(s) ELSE end)

\* `${type}:${userId}:${digest}`; no digit of the digest is a ':'
getCacheKey(type, userId, raw) == <<type, userId, Slice(Base64(raw), DigestLength)>>

\* `${request.databaseType}:${request.naturalLanguageQuery}`
QueryRaw(databaseType, question) == Utf8(databaseType) \o <<58>> \o Utf8(question)

Column(name, dataType) == [columnName |-> name, dataType |-> dataType]
TableOf(name, columns) == [tableName |-> name, columns |-> columns]
Context(tables) == [tables |-> tables, databaseType |-> "postgres"]

RECURSIVE JoinBytes(_, _)
JoinBytes(parts, sep) ==
    IF Len(parts) = 0 THEN <<>>
    ELSE IF Len(parts) = 1 THEN parts[1]
    ELSE parts[1] \o sep \o JoinBytes(Tail(parts), sep)

\* JSON.stringify(schemaContext), of the context the fields written here, in
\* the order parseSchema gives them
StringifyColumn(c) ==
    <<123, 34, 99, 111, 108, 117, 109, 110, 78, 97, 109, 101, 34, 58, 34>> \o Utf8(c.columnName)
      \o <<34, 44, 34, 100, 97, 116, 97, 84, 121, 112, 101, 34, 58, 34>> \o
        Utf8(c.dataType) \o <<34, 125>>
StringifyTable(t) ==
    <<123, 34, 116, 97, 98, 108, 101, 78, 97, 109, 101, 34, 58, 34>> \o
      Utf8(t.tableName) \o <<34, 44, 34, 99, 111, 108, 117, 109, 110, 115, 34, 58, 91>>
      \o JoinBytes([i \in 1..Len(t.columns) |-> StringifyColumn(t.columns[i])], <<44>>)
      \o <<93, 125>>
Stringify(ctx) ==
    <<123, 34, 116, 97, 98, 108, 101, 115, 34, 58, 91>>
      \o JoinBytes([i \in 1..Len(ctx.tables) |-> StringifyTable(ctx.tables[i])], <<44>>)
      \o <<93, 44, 34, 114, 101, 108, 97, 116, 105, 111, 110, 115, 104, 105, 112, 115,
        34, 58, 91, 93, 44, 34, 100, 97, 116, 97, 98, 97, 115, 101, 84, 121, 112, 101, 34,
        58, 34>> \o Utf8(ctx.databaseType) \o <<34, 125>>

\* env.AI_MAX_CACHE_SIZE, the maxKeys of both caches
AI_MAX_CACHE_SIZE == 500

MaxCalls == 3       \* AIService calls made

NoResponse == ""    \* undefined

\* if (cached): an object or a non-empty string
Truthy(v) == v # NoResponse

\* NodeCache.get(key): the value, or undefined
CacheGet(c, key) == IF key \in DOMAIN c THEN c[key] ELSE NoResponse

\* NodeCache.set(key, value) throws ECACHEFULL when the cache holds maxKeys keys
NodeCacheFull(c) == aiStats.otherKeys + Cardinality(DOMAIN c) >= AI_MAX_CACHE_SIZE
NodeCacheSet(c, key, v) == [x \in DOMAIN c \cup {key} |-> IF x = key THEN v ELSE c[x]]

\* What the model sends back: generateContent throws, or resolves with a text,
\* here its lines.
Reply(throws, text) == [throws |-> throws, text |-> text]

\* A line of three backquotes, alone or followed by json, is written
\* "<fence>" and "<fence>json" here.  parseJsonPayload takes what stands
\* between two fences, if there are any, else the whole text, and trims it.
JsonText(text) ==
    IF Len(text) = 3 /\ text[1] \in {"<fence>json", "<fence>"} /\ text[3] = "<fence>"
    THEN text[2] ELSE text[1]

\* JSON.parse on the texts of the model: the payload, or NoResponse when it throws
JsonParse(jsonText) ==
    CASE jsonText = "{\"query\":\"SELECT id FROM users\"}" -> "SELECT id FROM users"
      [] jsonText = "{\"query\":\"SELECT email FROM users\"}" -> "SELECT email FROM users"
      [] OTHER -> NoResponse

ParsesAsJson_Always(jsonText) == TRUE

ParsesAsJson(jsonText) == JsonParse(jsonText) # NoResponse

\* response.response.text().trim() on the summaries of the model
Trim(text) ==
    CASE text = " A shop. " -> "A shop."
      [] text = "  " -> ""
      [] OTHER -> text

NewCall(id, op, userId, databaseType, question, ctx, key) ==
    [id |-> id, op |-> op, userId |-> userId, databaseType |-> databaseType,
     question |-> question, ctx |-> ctx, key |-> key]

NoReply == Reply(FALSE, <<>>)

\* History: call c started (with a cache hit or not), or ended with an outcome
\* and a response, after the model had sent reply.
Event(ev, c, hit, outcome, response, reply) ==
    [ev |-> ev, id |-> c.id, op |-> c.op, userId |-> c.userId,
     databaseType |-> c.databaseType, question |-> c.question, ctx |-> c.ctx,
     hit |-> hit, outcome |-> outcome, response |-> response, reply |-> reply]

Counted(field) == [aiStats EXCEPT ![field] = @ + 1, !.requests = @ + 1]

\* generateQuery up to its await
GenerateQuery(u, d, question, ctx) ==
    LET key == getCacheKey("query", u, QueryRaw(d, question))
        c == NewCall(started + 1, "query", u, d, question, ctx, key)
        cached == CacheGet(queryCache, key)
    IN /\ started < MaxCalls
       /\ started' = started + 1
       /\ IF Len(ctx.tables) = 0
          THEN /\ aiLog' = aiLog \o <<Event("start", c, FALSE, "", NoResponse, NoReply),
                                      Event("end", c, FALSE, "AI_REQUEST_FAILED", NoResponse, NoReply)>>
               /\ UNCHANGED <<aiStats, calls>>
          ELSE IF Truthy(cached)
          THEN /\ aiStats' = Counted("hits")
               /\ aiLog' = aiLog \o <<Event("start", c, TRUE, "", NoResponse, NoReply),
                                      Event("end", c, TRUE, "ok", cached, NoReply)>>
               /\ UNCHANGED calls
          ELSE /\ aiStats' = [Counted("misses") EXCEPT !.modelCalls = @ + 1]
               /\ calls' = Append(calls, c)
               /\ aiLog' = Append(aiLog, Event("start", c, FALSE, "", NoResponse, NoReply))
       /\ UNCHANGED <<rows, pools, handles, req, sw, ec, fin, epoch, switched, add,
                      cacheVars, callVars, queryCache, schemaSummaryCache, acquireVars>>

\* generateQuery after its await: the response is parsed, validated (the
\* validator neither throws nor stores) and cached; every error leaves as an
\* AIServiceError, with the code of its origin.
QueryModelAnswers(i, reply) ==
    LET c == calls[i]
        jsonText == IF reply.throws THEN "" ELSE JsonText(reply.text)
        parsed == ~reply.throws /\ ParsesAsJson(jsonText)
        result == JsonParse(jsonText)
        stores == parsed /\ ~NodeCacheFull(queryCache)
        code == IF stores THEN "ok"
                ELSE IF ~reply.throws /\ ~parsed THEN "AI_RESPONSE_INVALID"
                ELSE "AI_REQUEST_FAILED"
    IN /\ c.op = "query"
       /\ calls' = Without(calls, i)
       /\ queryCache' = IF stores THEN NodeCacheSet(queryCache, c.key, result)
                        ELSE queryCache
       /\ aiLog' = Append(aiLog, Event("end", c, FALSE, code,
                                       IF stores THEN result ELSE NoResponse, reply))
       /\ UNCHANGED <<coreVars, add, cacheVars, callVars, schemaSummaryCache, aiStats, acquireVars>>

\* getSchemaSummary up to its await
GetSchemaSummary(u, ctx) ==
    LET key == getCacheKey("schema-summary", u, Stringify(ctx))
        c == NewCall(started + 1, "summary", u, ctx.databaseType, "", ctx, key)
        cached == CacheGet(schemaSummaryCache, key)
    IN /\ started < MaxCalls
       /\ started' = started + 1
       /\ IF Truthy(cached)
          THEN /\ aiStats' = Counted("hits")
               /\ aiLog' = aiLog \o <<Event("start", c, TRUE, "", NoResponse, NoReply),
                                      Event("end", c, TRUE, "ok", cached, NoReply)>>
               /\ UNCHANGED calls
          ELSE /\ aiStats' = [Counted("misses") EXCEPT !.modelCalls = @ + 1]
               /\ calls' = Append(calls, c)
               /\ aiLog' = Append(aiLog, Event("start", c, FALSE, "", NoResponse, NoReply))
       /\ UNCHANGED <<rows, pools, handles, req, sw, ec, fin, epoch, switched, add,
                      cacheVars, callVars, queryCache, schemaSummaryCache, acquireVars>>

\* getSchemaSummary after its await
SummaryModelAnswers(i, reply) ==
    LET c == calls[i]
        summary == Trim(reply.text[1])
        stores == ~reply.throws /\ ~NodeCacheFull(schemaSummaryCache)
    IN /\ c.op = "summary"
       /\ calls' = Without(calls, i)
       /\ schemaSummaryCache' = IF stores
                                THEN NodeCacheSet(schemaSummaryCache, c.key, summary)
                                ELSE schemaSummaryCache
       /\ aiLog' = Append(aiLog, Event("end", c, FALSE,
                                       IF stores THEN "ok" ELSE "AI_REQUEST_FAILED",
                                       IF stores THEN summary ELSE NoResponse, reply))
       /\ UNCHANGED <<coreVars, add, cacheVars, callVars, queryCache, aiStats, acquireVars>>

UsersSchema(idType) == Context(<<TableOf("users", <<Column("id", idType)>>)>>)
OrdersSchema == Context(<<TableOf("orders", <<Column("id", "uuid")>>)>>)
EmptySchema == Context(<<>>)

\* The requests made: two long questions, of two tenants and in two dialects,
\* and one against a schema without tables.
QueryRequests ==
    {<<"u1", "postgres", QuestionNewest, OrdersSchema>>,
     <<"u1", "postgres", QuestionOldest, OrdersSchema>>,
     <<"u1", "mysql", QuestionNewest, OrdersSchema>>,
     <<"u2", "postgres", QuestionNewest, OrdersSchema>>,
     <<"u1", "postgres", QuestionNewest, EmptySchema>>}

SummaryRequests ==
    {<<"u1", UsersSchema("uuid")>>, <<"u1", UsersSchema("integer")>>,
     <<"u1", OrdersSchema>>, <<"u2", UsersSchema("uuid")>>}

QueryReplies ==
    {Reply(TRUE, <<"">>),
     Reply(FALSE, <<"<fence>json", "{\"query\":\"SELECT id FROM users\"}", "<fence>">>),
     Reply(FALSE, <<"{\"query\":\"SELECT email FROM users\"}">>),
     Reply(FALSE, <<"<fence>json", "{\"query\": \"SELECT id FROM users\",", "<fence>">>)}

SummaryReplies ==
    {Reply(TRUE, <<"">>), Reply(FALSE, <<" A shop. ">>), Reply(FALSE, <<"Orders.">>),
     Reply(FALSE, <<"  ">>)}

InitAI ==
    /\ rows = StoredRows
    /\ pools = [u \in Users |-> NoPool]
    /\ handles = <<>>
    /\ req = <<>>
    /\ sw = <<>>
    /\ ec = <<>>
    /\ fin = {}
    /\ started = 0
    /\ epoch = [u \in Users |-> [n |-> 0, got |-> NoPool, closed |-> NoPool]]
    /\ switched = [u \in Users |-> NoRow]
    /\ add = <<>>
    /\ cache = <<>>
    /\ others = 0
    /\ hits = 0
    /\ misses = 0
    /\ seen = [present |-> 0, absent |-> 0]
    /\ inp = NoCall
    /\ out = NoCall
    /\ queryCache = <<>>
    /\ schemaSummaryCache = <<>>
    /\ \E n \in {0, AI_MAX_CACHE_SIZE} :
         aiStats = [hits |-> 0, misses |-> 0, requests |-> 0, modelCalls |-> 0,
                    otherKeys |-> n]
    /\ calls = <<>>
    /\ aiLog = <<>>
    /\ AcquireIdle

NextAI ==
    \/ \E r \in QueryRequests : GenerateQuery(r[1], r[2], r[3], r[4])
    \/ \E i \in 1..Len(calls), reply \in QueryReplies : QueryModelAnswers(i, reply)
    \/ \E r \in SummaryRequests : GetSchemaSummary(r[1], r[2])
    \/ \E i \in 1..Len(calls), reply \in SummaryReplies : SummaryModelAnswers(i, reply)

SpecAI == InitAI /\ [][NextAI]_vars

\* generateQuery alone
NextGen ==
    \/ \E r \in QueryRequests : GenerateQuery(r[1], r[2], r[3], r[4])
    \/ \E i \in 1..Len(calls), reply \in QueryReplies : QueryModelAnswers(i, reply)

SpecGen == InitAI /\ [][NextGen]_vars

----------------------------------------------------------------------------
(* pool-manager.ts: callers asking one pool handle for a client             *)
(* (handle.connect()), by dialect.  The pg Pool is constructed with max: 10 *)
(* and connectionTimeoutMillis: 5000.  mysql.createPool(connectionString)   *)
(* is given no option beyond the connection string, so the driver's         *)
(* defaults apply: 10 connections, callers queue when none is free          *)
(* (waitForConnections, no queueLimit), and a queued getConnection() call   *)
(* has no time limit.                                                       *)

MaxConnects == 3    \* connect() calls made on the pool

\* max: 10 (the mysql driver's default connectionLimit is 10 as well)
max == 10

\* connectionTimeoutMillis: 5000 for a pg Pool; 0 stands for no time limit
connectionTimeoutMillis(scheme) == IF IsMysql(scheme) THEN 0 ELSE 5000

\* The clients earlier callers may hold when the calls under study start.
HeldBefore == {0, max - 1, max}

WaiterIds == 1..Len(waiters)

\* How many connect() calls there have been.
Connects == Cardinality(DOMAIN answered) + Len(waiters)

\* connect() call id has settled with result.
Answer(id, result) == (id :> result) @@ answered

\* const client = await pool.connect(): with a connection free or the pool
\* below its limit the caller is given a client; otherwise the call is queued,
\* with a timer when the pool has a connection timeout.
ConnectCall ==
    /\ Connects < MaxConnects
    /\ IF checkedOut < max
       THEN /\ checkedOut' = checkedOut + 1
            /\ answered' = Answer(Connects + 1, "client")
            /\ UNCHANGED waiters
       ELSE /\ waiters' = Append(waiters,
                                 [id |-> Connects + 1,
                                  timer |-> connectionTimeoutMillis(inp.scheme) > 0])
            /\ UNCHANGED <<checkedOut, answered>>
    /\ UNCHANGED <<coreVars, add, cacheVars, callVars, aiVars>>

\* finally { client.release() } of a caller that holds a client: the pool hands
\* the connection to the oldest queued call, or keeps it as idle.
Release ==
    /\ checkedOut > 0
    /\ IF waiters = <<>>
       THEN /\ checkedOut' = checkedOut - 1
            /\ UNCHANGED <<waiters, answered>>
       ELSE /\ waiters' = Tail(waiters)
            /\ answered' = Answer(Head(waiters).id, "client")
            /\ UNCHANGED checkedOut
    /\ UNCHANGED <<coreVars, add, cacheVars, callVars, aiVars>>

\* The timer of queued call i expires: the call is taken off the queue and
\* rejects with the pool's timeout error.
TimerFires(i) ==
    /\ waiters[i].timer
    /\ waiters' = Without(waiters, i)
    /\ answered' = Answer(waiters[i].id, "timeout")
    /\ UNCHANGED <<coreVars, add, cacheVars, callVars, aiVars, checkedOut>>

Schemes == {"postgres", "mysql"}

InitAcquire ==
    /\ rows = StoredRows
    /\ pools = [u \in Users |-> NoPool]
    /\ handles = <<>>
    /\ req = <<>>
    /\ sw = <<>>
    /\ ec = <<>>
    /\ fin = {}
    /\ started = 0
    /\ epoch = [u \in Users |-> [n |-> 0, got |-> NoPool, closed |-> NoPool]]
    /\ switched = [u \in Users |-> NoRow]
    /\ add = <<>>
    /\ cache = <<>>
    /\ others = 0
    /\ hits = 0
    /\ misses = 0
    /\ seen = [present |-> 0, absent |-> 0]
    /\ inp \in {[scheme |-> d] : d \in Schemes}
    /\ out = NoCall
    /\ AiIdle
    /\ checkedOut \in HeldBefore
    /\ waiters = <<>>
    /\ answered = <<>>

TimersFire == \E i \in WaiterIds : TimerFires(i)

NextAcquire == ConnectCall \/ Release \/ TimersFire

SpecAcquire == InitAcquire /\ [][NextAcquire]_vars

\* The event loop runs every timer that has expired.  When a caller that holds
\* a client releases it is up to the database, which answers the caller's
\* statements or does not: no fairness for Release.
FairAcquire == SpecAcquire /\ WF_vars(TimersFire)

----------------------------------------------------------------------------
(* Properties of the pool manager and the gateway, checked under Spec *)

\* What is known of every request, in flight or finished.
Requests == {req[q] : q \in ReqIds} \cup {r \in fin : r.kind \in RequestKinds}

\* C1: for every tenant, getPool calls with no closePool returning in between
\* return the identical handle, and the first getPool after a closePool has
\* returned constructs a new handle, different from the one that was shut down.
C1_SameHandleUntilClosed == \A r \in Requests : r.repeated /\ r.fresh

\* A request holds a handle that was constructed after a closePool shut down
\* and removed an earlier one.
C1_Witness ==
    \E q \in ReqIds :
       /\ req[q].pc = "connect"
       /\ epoch[req[q].user].closed # NoPool
       /\ req[q].pool > epoch[req[q].user].closed
       /\ pools[req[q].user] = req[q].pool

\* C2: pool creation is serialized per tenant: between two closePool returns at
\* most one pool is constructed for a tenant, every getPool call of that period
\* returns it, and it is the tenant's one table entry.
C2_OnePoolPerTenant ==
    /\ \A h1, h2 \in HandleIds :
          (handles[h1].user = handles[h2].user /\ handles[h1].epoch = handles[h2].epoch)
             => h1 = h2
    /\ \A u \in Users : pools[u] # NoPool => handles[pools[u]].user = u
    /\ \A q \in ReqIds :
          (req[q].pool # NoPool /\ handles[req[q].pool].epoch = epoch[req[q].user].n)
             => pools[req[q].user] = req[q].pool

\* Two requests of one tenant were both waiting for getPool with no handle in
\* the table, and both hold the one handle that was constructed.
C2_Witness ==
    \E q1, q2 \in ReqIds :
       /\ q1 # q2 /\ req[q1].user = req[q2].user
       /\ req[q1].pc = "connect" /\ req[q2].pc = "connect"
       /\ req[q1].pool = req[q2].pool
       /\ Cardinality({h \in HandleIds : handles[h].user = req[q1].user}) = 1

\* C3: getPool never returns a handle on which closePool has already called
\* end().
C3_NeverReturnsEndingPool == \A r \in Requests : ~r.ending

\* C4: when closePool returns, the tenant has no entry, whether end() resolved
\* or rejected; closePool never rejects; with no entry it changes nothing.
C4_EntryRemoved ==
    /\ \A s \in SwIds : sw[s].pc = "closed" => sw[s].entry = NoPool
    /\ \A r \in fin : r.kind = "close" => r.entry = NoPool
    /\ \A r \in fin : r.kind = "switch" => r.status # 500

C4_NoEntryNoChange ==
    (/\ Len(sw') = Len(sw) + 1
     /\ pools[sw'[Len(sw')].user] = NoPool)
       => (pools' = pools /\ handles' = handles /\ sw'[Len(sw')].pc = "closed")

C4_CloseAlwaysRemoves == []C4_EntryRemoved /\ [][C4_NoEntryNoChange]_vars

\* closePool has returned to a switch after end() rejected, and the entry is gone.
C4_Witness ==
    \E s \in SwIds : sw[s].pc = "closed" /\ sw[s].outcome = "rejected" /\ pools[sw[s].user] = NoPool

\* C5: for every handle, of either dialect, an unrecoverable pool-level error
\* triggers closePool for the tenant.
C5_EveryPoolErrorClosesPool == \A r \in fin : r.kind = "error" => r.closeCalled

\* C8: a query that started after a switch had completed, and after the
\* queries that overlapped the switch had returned, runs on a pool built from
\* the connection the switch activated.
C8_QueriesAfterSwitchUseNewConnection == \A r \in Requests : r.kind = "query" => r.current

\* C9: every client that executeQuery or getDatabaseSchema checks out is
\* released exactly once by the time the function returns or throws, and not
\* before.
C9_ClientReleasedOnce ==
    /\ \A r \in fin : r.kind \in RequestKinds => (r.acquired \in {0, 1} /\ r.released = r.acquired)
    /\ \A q \in ReqIds : req[q].released = 0 /\ (req[q].acquired = 1 <=> req[q].pc \in {"q1", "q2"})

\* getDatabaseSchema failed on its second statement, after checking out a client.
C9_Witness ==
    \E r \in fin : r.kind = "schema" /\ r.pc = "failed" /\ r.acquired = 1 /\ r.released = 1

----------------------------------------------------------------------------
(* Properties of the workspace, checked under SpecWs *)

\* C6: under any interleaving of addConnection and switchConnection requests,
\* no tenant ever has more than one stored connection flagged active.
C6_AtMostOneActive == \A u \in Users : Cardinality(ActiveRows(u)) <= 1

\* C7: under any interleaving of addConnection requests, no tenant ever has
\* more than five stored connections, and an add that finds five is rejected.
C7_AtMostFiveConnections ==
    /\ \A u \in Users : CountOf(u) <= MaxConnections
    /\ \A r \in fin : (r.kind = "add" /\ r.full) => r.status = 400

----------------------------------------------------------------------------
(* Properties of the schema cache, checked under SpecCache *)

ContextRequests == {r \in fin : r.kind = "context"}

\* C10: a call for a key without entry counts one miss, queries the database
\* and stores the result; a call that follows it counts one hit, queries
\* nothing and returns a result equal to the stored one.
C10_MissStoresThenHit ==
    /\ misses = seen.absent
    /\ hits = seen.present
    /\ \A r \in ContextRequests :
         /\ (~r.hit /\ r.fetched) => (r.stored /\ r.pc = "done")
         /\ r.hit => (r.pool = NoPool /\ r.acquired = 0 /\ r.pc = "done")
         /\ r.hit => \E m \in ContextRequests :
                        /\ m.user = r.user /\ m.dbType = r.dbType
                        /\ m.stored /\ m.result = r.result

----------------------------------------------------------------------------
(* Properties of invalidation, checked under SpecInv *)

\* C11: invalidateUserCache(t) removes exactly the entries stored for tenant
\* t, for every dialect, and leaves the entries of every other tenant in the
\* cache, also of a tenant whose identifier is t followed by ':' and more.
C11_InvalidateRemovesExactlyTenant ==
    started > 0 =>
        /\ DOMAIN cache = DOMAIN out \ TenantKeys(inp)
        /\ \A k \in DOMAIN cache : cache[k] = out[k]

----------------------------------------------------------------------------
(* Failed fetches, checked under SpecCache *)

\* The requests that have just been answered with an error after a miss whose
\* fetch failed (getPool threw, connect failed or a statement failed).
FailedFetches(f) == {r \in f : r.kind = "context" /\ ~r.hit /\ ~r.fetched}

C12_FailedFetchStoresNothing ==
    \A r \in FailedFetches(fin) : ~r.stored /\ r.pc = "failed"

C12_FailedFetchKeepsCache ==
    FailedFetches(fin') # FailedFetches(fin) => cache' = cache

\* C12: when the fetch of a miss fails, the call is answered with the error
\* and the step leaves the cache as it was, so a key without entry is still
\* without entry and the next call for it is a miss again.
C12_FetchFailureLeavesCacheUnpopulated ==
    []C12_FailedFetchStoresNothing /\ [][C12_FailedFetchKeepsCache]_vars

\* A miss whose fetch failed on a statement, followed by another miss, with
\* the cache still empty.
C12_Witness ==
    /\ \E r \in FailedFetches(fin) : r.acquired > 0 /\ r.released = r.acquired
    /\ misses >= 2
    /\ DOMAIN cache = {}

----------------------------------------------------------------------------
(* Properties of the credential vault, checked under SpecVault *)

Decrypted == started > 0 /\ out.decrypted
Intact == inp.damage.kind = "none" /\ inp.key = KEY

\* C13: for every connection string and every nonce, decrypting under the
\* process-wide key the token that encrypt made under it returns the string.
C13_DecryptInvertsEncrypt ==
    (Decrypted /\ Intact) => out.result = Returned(inp.text)

\* A non-empty string has been encrypted and decrypted back.
C13_Witness ==
    Decrypted /\ Intact /\ Len(inp.text) = MaxTextLen /\ out.result.ok
      /\ FromHex(Split(out.token)[3]) # inp.text

\* C14: decrypt returns no value for a token with a missing or shortened
\* nonce, tag or ciphertext part, with a tag that does not verify, or made
\* under another key.
C14_DamagedTokenNeverDecrypts ==
    (Decrypted /\ ~Intact) => ~out.result.ok

----------------------------------------------------------------------------
(* Properties of the validator, checked under SpecValidator *)

Validated == started > 0

\* C15: isValid is true exactly when the list of errors is empty, whatever
\* the warnings and the suggested indexes are.
C15_ValidIffNoErrors ==
    Validated => (out.isValid <=> out.errors = <<>>)

\* A valid result that carries warnings and a suggested index.
C15_Witness ==
    /\ Validated /\ out.isValid
    /\ out.warnings # <<>> /\ out.suggestedIndexes # <<>>

Range(f) == {f[i] : i \in DOMAIN f}

\* The table a statement reads: the identifier after its first FROM, JOIN,
\* INTO or UPDATE, as written; "" when there is none.
StatementTable(q) ==
    LET at == {i \in 1..(Len(q) - 1) : TableKeyword(q[i]) /\ LeadingIdentifier(q[i + 1]) # ""}
    IN IF at = {} THEN ""
       ELSE LeadingIdentifier(q[1 + CHOOSE i \in at : \A j \in at : i <= j])

\* C16: for each `WHERE <column> =` predicate, with the column qualified by
\* its table or unqualified (the table then being that of the statement), a
\* column of the schema without index gets the suggestion
\* CREATE INDEX idx_<table>_<column> ON <table>(<column>);
C16_SuggestsIndexForEqualityFilter ==
    Validated =>
        \A i \in 1..(Len(inp.query) - 2) :
            LET ref == inp.query[i + 1]
                t == IF ref \in DottedWords THEN SplitDot(ref)[1]
                     ELSE StatementTable(inp.query)
                c == IF ref \in DottedWords THEN SplitDot(ref)[2] ELSE ref
            IN (/\ Is(inp.query[i], "where") /\ IsColumnRef(ref)
                /\ inp.query[i + 2] = "="
                /\ t # "" /\ columnExists(inp.ctx, t, c) /\ ~hasIndex(inp.ctx, t, c))
               => CreateIndex(t, c) \in Range(out.suggestedIndexes)

\* What the result says of the identifier id after a table keyword: missing
\* from the schema, the query is invalid with an error that names it; in
\* the schema in any letter case, no error names it.
JudgedAsTable(id) ==
    IF Lower(id) \notin TableNames(inp.ctx)
    THEN ~out.isValid /\ \E e \in Range(out.errors) : e.about = Lower(id)
    ELSE \A e \in Range(out.errors) : e.about # Lower(id)

RECURSIVE TakenAsTable(_, _)
TakenAsTable(q, p) ==
    /\ p >= 2
    /\ TableKeyword(q[p - 1])
    /\ LeadingIdentifier(q[p]) # ""
    /\ ~TakenAsTable(q, p - 1)

DeleteWarning == Problem("DELETE without WHERE will affect all rows", "")

\* What the result says of DELETE FROM name, without and with a WHERE clause.
DeleteWarned(name) ==
    /\ inp.query = <<"DELETE", "FROM", name>>
         => (out.isValid /\ out.errors = <<>> /\ DeleteWarning \in Range(out.warnings))
    /\ (\E w \in WhereClauses \ {<<>>} : inp.query = <<"DELETE", "FROM", name>> \o w)
         => DeleteWarning \notin Range(out.warnings)

\* C18 as stated: for every table t of the schema, DELETE FROM t is valid,
\* without errors, with the warning that DELETE without WHERE affects all
\* rows; with a WHERE clause it does not get that warning.
C18_DeleteWithoutWhereWarned ==
    Validated => \A t \in Range(inp.ctx) : DeleteWarned(t.tableName)

\* C18, amended: the same for every table of the schema whose name is an
\* identifier (a letter or '_', then letters, digits, '_') other than the
\* word WHERE.
C18_DeleteWithoutWhereWarnedForIdentifiers ==
    Validated =>
        \A t \in Range(inp.ctx) :
            (t.tableName \in IdentifierWords /\ ~Is(t.tableName, "where"))
                => DeleteWarned(t.tableName)

\* DELETE FROM users against a schema with table users has been validated.
C18_Witness ==
    /\ Validated
    /\ inp.query = <<"DELETE", "FROM", "users">>
    /\ \E t \in Range(inp.ctx) : t.tableName = "users"
    /\ out.isValid /\ DeleteWarning \in Range(out.warnings)

----------------------------------------------------------------------------
(* executeQuery: the table answer *)

\* The driver's result carries no column metadata.
NoMetadata == Len(ClientQuery(inp.dialect, inp.raw).fields) = 0

\* C19: in table format, for either dialect, a result without column metadata
\* is answered with columns ["Status"], exactly one row whose Status is
\* "Success", and a rowCount that is a number, 0 when the driver reports
\* none; a result with column metadata is answered with its field names in
\* order and the driver's rows unchanged.
C19_TableAnswerNormalized ==
    (started = 1 /\ inp.format = "table") =>
        /\ IsNumber(out.rowCount)
        /\ inp.raw.count = Null => out.rowCount = Num(0)
        /\ NoMetadata =>
              /\ out.columns = <<"Status">>
              /\ Len(out.rows) = 1
              /\ HasKey(out.rows[1], "Status")
              /\ Get(out.rows[1], "Status") = Str("Success")
        /\ ~NoMetadata =>
              /\ out.columns = inp.raw.fields
              /\ out.rows = inp.raw.rows

\* A mysql statement answered by a header: the synthesized row carries the
\* header's entries after Status.
C19_Witness ==
    /\ started = 1 /\ inp.format = "table" /\ inp.dialect = "mysql"
    /\ inp.raw.kind = "header"
    /\ out.columns = <<"Status">>
    /\ out.rows = << << <<"Status", Str("Success")>>, <<"affectedRows", Num(1)>> >> >>
    /\ out.rowCount = Num(1)

----------------------------------------------------------------------------
(* parseSchema: the relationships *)

\* (t, c) names a column of a table in tables.
EndpointPresent(tables, t, c) ==
    \E i \in 1..Len(tables) :
        /\ tables[i].tableName = t
        /\ \E j \in 1..Len(tables[i].columns) : tables[i].columns[j].columnName = c

\* C20: every relationship of the parsed schema context has both endpoints
\* present in tables: (fromTable, fromColumn) and (toTable, toColumn) each
\* name a column of a table in tables.
C20_RelationshipEndpointsPresent ==
    started = 1 =>
        \A i \in 1..Len(out.relationships) :
            /\ EndpointPresent(out.tables, out.relationships[i].fromTable,
                               out.relationships[i].fromColumn)
            /\ EndpointPresent(out.tables, out.relationships[i].toTable,
                               out.relationships[i].toColumn)

----------------------------------------------------------------------------
(* A full cache, checked under SpecCache *)

\* C24: every getSchemaContext miss whose database fetch succeeds returns the
\* schema context, also when the cache already holds its maximum of entries
\* for other keys.
C24_SuccessfulFetchReturnsContext ==
    \A r \in ContextRequests :
        (~r.hit /\ r.fetched) => (r.pc = "done" /\ r.result # NoRow)

----------------------------------------------------------------------------
(* Freshness after invalidation, checked under SpecFresh *)

\* This step is the cache lookup of a getSchemaContext call of tenant u: the
\* call leaves with a hit, or goes on to fetch.
LookupBy(u) ==
    \E q \in ReqIds :
        /\ req[q].kind = "context" /\ req[q].pc = "getpool" /\ req[q].user = u
        /\ hits' + misses' = hits + misses + 1
        /\ \/ req' = Without(req, q)
           \/ Len(req') = Len(req) /\ req'[q].pc # "getpool"

\* C25: once invalidateUserCache(t) has returned, the next getSchemaContext
\* call of t that looks into the cache is a miss, whatever was in flight
\* while the invalidation ran.
C25_InvalidationGuaranteesFreshness ==
    [][\A u \in Users :
          (/\ Len(out) = 3 /\ out[1] = u
           /\ hits + misses = out[2]
           /\ LookupBy(u))
          => hits' = hits]_vars

----------------------------------------------------------------------------
(* The caches of the AIService *)

Ended(op) == {i \in 1..Len(aiLog) : aiLog[i].ev = "end" /\ aiLog[i].op = op}
Started(op) == {i \in 1..Len(aiLog) : aiLog[i].ev = "start" /\ aiLog[i].op = op}

SameRequest(a, b) ==
    /\ a.op = b.op /\ a.userId = b.userId /\ a.databaseType = b.databaseType
    /\ a.question = b.question /\ a.ctx.tables = b.ctx.tables

\* The calls before the i-th event that went to the model for the request of
\* event e and succeeded.
Generated(e, i) ==
    {m \in 1..(i - 1) : /\ aiLog[m].ev = "end" /\ ~aiLog[m].hit
                        /\ aiLog[m].outcome = "ok" /\ SameRequest(aiLog[m], e)}

\* C30: a response or summary served from a cache was generated for a request
\* with the same userId, databaseType and question, or for an equal schema
\* context: requests that differ never share a cache entry.
C30_CacheKeysInjective ==
    \A op \in {"query", "summary"} : \A i \in Ended(op) :
        aiLog[i].hit =>
            \E m \in Generated(aiLog[i], i) : aiLog[m].response = aiLog[i].response

\* The calls before the i-th event that succeeded for the request of event e,
\* served from the cache or not.
Succeeded(e, i) ==
    {m \in 1..(i - 1) : /\ aiLog[m].ev = "end" /\ aiLog[m].outcome = "ok"
                        /\ SameRequest(aiLog[m], e)}

HitCount == Cardinality({i \in 1..Len(aiLog) : aiLog[i].ev = "start" /\ aiLog[i].hit})

\* C22: a generateQuery call that starts after a call for the same userId,
\* databaseType and question has succeeded is served from the cache: it does
\* not call the model, it returns the response of such a call, and it is
\* counted as a hit.
C22_SucceededRequestIsServedFromCache ==
    /\ aiStats.hits = HitCount
    /\ aiStats.modelCalls = aiStats.misses
    /\ \A i \in Started("query") :
         (Len(aiLog[i].ctx.tables) > 0 /\ Succeeded(aiLog[i], i) # {}) =>
            /\ aiLog[i].hit
            /\ \E m \in Succeeded(aiLog[i], i) : aiLog[m].response = aiLog[i + 1].response

\* The replies that are not valid JSON.
NotJson(reply) ==
    /\ ~reply.throws
    /\ reply.text = <<"<fence>json", "{\"query\": \"SELECT id FROM users\",", "<fence>">>

\* The codes an AIServiceError of generateQuery carries.
ErrorCodes == {"AI_REQUEST_FAILED", "AI_RESPONSE_INVALID"}

RejectedHere ==
    Len(aiLog') > Len(aiLog) /\ aiLog'[Len(aiLog')].outcome \in ErrorCodes

C23_FailuresReject ==
    \A i \in Ended("query") :
        (\/ Len(aiLog[i].ctx.tables) = 0
         \/ aiLog[i].reply.throws
         \/ NotJson(aiLog[i].reply)) =>
            /\ aiLog[i].outcome \in ErrorCodes
            /\ aiLog[i].response = NoResponse

C23_FailuresStoreNothing ==
    RejectedHere =>
        /\ queryCache' = queryCache
        /\ Len(aiLog'[Len(aiLog')].ctx.tables) = 0 => aiStats' = aiStats

\* C23: a generateQuery call that is given a schema context without tables,
\* whose model call throws, or whose model response is not valid JSON, rejects
\* with an AIServiceError and leaves the query cache as it was; with an empty
\* schema context nothing is counted and the model is not called.
C23_FailedGenerationStoresNothing ==
    []C23_FailuresReject /\ [][C23_FailuresStoreNothing]_vars

\* An invalid response was rejected, and the same request went to the model
\* again afterwards.
C23_Witness ==
    \E i \in Ended("query") :
        /\ NotJson(aiLog[i].reply) /\ aiLog[i].outcome = "AI_RESPONSE_INVALID"
        /\ \E j \in Started("query") :
             j > i /\ SameRequest(aiLog[j], aiLog[i]) /\ ~aiLog[j].hit

----------------------------------------------------------------------------
(* Pools taken out of the table *)

\* C26: every pool ever constructed is the current table entry of its tenant
\* or a pool on which end() has been invoked: no handle leaves the table
\* without a shutdown attempt.
C26_RemovedPoolsWereShutDown ==
    \A h \in HandleIds : pools[handles[h].user] = h \/ handles[h].ending

\* C27: the error observer of a pool only shuts down the pool that emitted the
\* error: in a step in which handle h reports a pool-level error, no handle
\* other than h has end() invoked on it, so an error of a replaced handle
\* never shuts down the tenant's newer handle.
C27_ObserverClosesOnlyEmitter ==
    [][\A h \in HandleIds : PoolError(h) =>
          \A g \in HandleIds : handles'[g].ending /\ ~handles[g].ending => g = h]_vars

\* C28: a switchConnection request whose connectionId is not a stored
\* connection of the tenant (the request that is answered 404: rows are never
\* deleted and never change owner) leaves the stored connections as they
\* are: none of its steps changes a row, so the connection that was active
\* stays active.
C28_FailedSwitchLeavesConnections ==
    [][\A s \in SwIds :
          SwitchDeactivate(s) /\ ~ActivateMatches(sw[s].user, sw[s].target)
              => rows' = rows]_vars

\* A getSchemaContext call of request q that finds its key in the cache, when
\* q started after a switch of its tenant had been answered 200 and no other
\* switch of the tenant has been in flight since.
HitAfterSwitch(q) ==
    /\ ContextLookup(q)
    /\ CacheHas(CacheKey(req[q].user, req[q].dbType))
    /\ req[q].after # NoRow
    /\ ~req[q].overlap

\* C29: after a completed switch of a tenant, a getSchemaContext call of the
\* tenant that is served from the cache returns a context that was read from
\* the connection the switch activated, never one cached from the connection
\* that was active before.
C29_NoContextOfPreviousConnection ==
    [][\A q \in ReqIds : HitAfterSwitch(q) =>
          cache[CacheKey(req[q].user, req[q].dbType)].source = req[q].after]_vars

\* connect() call id waits in the queue of the pool.
Waiting(id) == \E i \in WaiterIds : waiters[i].id = id

\* C21: for a pool of either dialect, a connect() call made while all
\* connections of the pool are held eventually settles, with a client or
\* with the timeout error: no call waits forever.
C21_NoConnectWaitsForever ==
    \A id \in 1..MaxConnects : Waiting(id) ~> (id \in DOMAIN answered)

====
